---- MODULE Spec2Model ----
(***************************************************************************)
(* Model of the CUDA full-chain sequence driver seq_run                    *)
(* (src/unnamed/part_000, lines 221-762), of the CUDA truth-fitting driver *)
(* main (src/unnamed/part_001, lines 56-278) and of the output writer      *)
(* mywrite (src/simulation/CMakeLists.txt, lines 37-191).                  *)
(*                                                                         *)
(* A behaviour is one run of one of the two drivers, chosen by the initial *)
(* value of pc: one action per program step, in program order; the steps   *)
(* of the truth-fitting driver are the actions Tf... at the positions      *)
(* "tf_...".  The stage algorithms (seeding, parameter estimation,         *)
(* finding, fitting) are external: their outputs are chosen                *)
(* nondeterministically from SeedingOutputs, FindingOutputs, ...           *)
(*                                                                         *)
(* Further specifications over the same variables: SpecErr, the drivers    *)
(* with stage calls that may throw; SpecCmp, the comparator on arbitrary   *)
(* candidate containers; SpecCopy, an upload followed by a download;       *)
(* SpecWrite, the mywrite overloads at the level of the text they write;   *)
(* SpecSim, two runs of the pile-up simulator multi_vtx_simulator          *)
(* (src/simulation/include/traccc/simulation/multi_vtx_simulator.hpp);     *)
(* SpecTime, the timing files of seq_run at the level of their text, over  *)
(* successive runs of the program.                                         *)
(***************************************************************************)
EXTENDS Integers, Sequences, FiniteSets, TLC

\* ------------------------------------------------------------------ bounds
MaxEvents == 2
MaxSkip == 1
MaxHits == 1
MaxTracks == 2
MaxCalls == 2
MaxVtx == 2

VARIABLES
    input_opts,        \* [skip, events]      (part_000:224, part_001:62)
    accelerator_opts,  \* [compare_with_cpu]  (part_000:227, part_001:79 run_cpu)
    performance_opts,  \* [run]   (part_000:226, part_001:253 check_performance)
    pc,                \* position of the controlling thread in the driver
    stage,             \* last stage of seq_run's state machine that was started
    event,             \* loop variable                        (part_000:375)
    host,              \* host collections of the current iteration
    dev,               \* device buffers of the current iteration
    n,                 \* output stats                         (part_000:276-283)
    pending,           \* accelerator results enqueued on the stream, not awaited
    writers,           \* per performance writer, the calls it received
    written,           \* output files written since the iteration began
    hist               \* observation of the run (not program state)

opts == <<input_opts, accelerator_opts, performance_opts>>

vars == <<input_opts, accelerator_opts, performance_opts, pc, stage, event,
          host, dev, n, pending, writers, written, hist>>

\* ----------------------------------------------------------- vocabulary
AccStages == {"Seed", "Estimate", "Find", "Fit"}
CpuStages == {"Seed", "Estimate", "Find", "Fit"}
Results == {"seeds", "params", "track_candidates", "track_states"}
Writers == {"sd", "nsd", "find", "fit"}

Min(a, b) == IF a < b THEN a ELSE b

\* --------------------------------------------------- collections, buffers
\* Flat collections (spacepoints, modules, measurements, seeds, parameters,
\* track states) are modelled by their element count; a track-candidate
\* container is the sequence of its candidates' measurement sequences.

\* Host containers at the top of the loop body (part_000:379-385).
EmptyHost ==
    [spacepoints |-> 0, modules |-> 0, measurements |-> 0,
     seeds |-> 0, params |-> 0, track_candidates |-> << >>, track_states |-> 0,
     seeds_cuda |-> 0, params_cuda |-> 0, track_candidates_cuda |-> << >>,
     track_states_cuda |-> 0]

\* Device buffers at the top of the loop body (part_000:387-396); the
\* uploaded buffers and the navigation buffer do not exist yet (-1).
EmptyDev ==
    [spacepoints |-> -1, modules |-> -1, measurements |-> -1,
     seeds |-> 0, params |-> 0, track_candidates |-> << >>, track_states |-> 0,
     navigation |-> -1]

\* Output stats (part_000:276-283).
ZeroStats ==
    [modules |-> 0, spacepoints |-> 0, seeds |-> 0, seeds_cuda |-> 0,
     found_tracks |-> 0, found_tracks_cuda |-> 0,
     fitted_tracks |-> 0, fitted_tracks_cuda |-> 0]

\* Observation of a run.  The first group is cleared when an iteration ingests
\* its event, the second group lasts for the run.
\*   issued     accelerator stages issued in this iteration
\*   cpu_ran    CPU stages executed in this iteration
\*   cpu_saw    <<CPU stage, accelerator stages issued when it executed>>
\*   syncs      stages after which stream.synchronize() was called
\*   reads      <<result, TRUE iff it was complete>> for every host-side read
\*   stream_of  <<step, stream it enqueued its work on>>
\*   consumed   <<accelerator stage, input, TRUE iff the input was still
\*              pending when the stage was issued, TRUE iff the input's
\*              producer had been enqueued on the stage's stream>>
\*   measurements_given  <<path, number of measurements its track finding
\*              was given>>
\*   nav        the navigation buffers allocated in this iteration, in order:
\*              event, size, and the accelerator stages issued by then
\*   nav_passed <<accelerator stage, position in nav of the buffer it was
\*              given>>
\*   compared   the comparator block ran in this iteration
\*   quiet_at_compare  no accelerator work was pending when it ran
\*   n_matches  the comparator's track-candidate match count
\*   rate       the match rate it printed
\*   calls_before  per performance writer, the calls it had received when
\*              the iteration began
\*   processed  event indices for which the loop body was entered
\*   recorded   event indices whose statistics were recorded
\*   made       sizes of the collections read and of the stage outputs,
\*              summed when they are read or produced
\*   live       <<buffer, event of the iteration that created it>> for every
\*              device buffer created and not yet destroyed
\*   streams    the streams work was enqueued on during the run
\*   comparator_calls, summary, returned
\*   thrown     the stage call that threw, "none" if none did
\*   io         the file streams: open, the paths with an open handle;
\*              overlap, the paths opened while a handle to them was open;
\*              failed, the paths an output stream could not open, and
\*              cerr, the paths reported as such on std::cerr, both since
\*              the iteration began
EventHist(ws) ==
    [issued |-> {}, cpu_ran |-> {}, cpu_saw |-> {}, syncs |-> << >>,
     reads |-> {}, measurements_given |-> {}, stream_of |-> {}, consumed |-> {}, nav |-> << >>, nav_passed |-> {}, compared |-> FALSE, quiet_at_compare |-> TRUE,
     n_matches |-> 0, rate |-> [nan |-> FALSE, num |-> 0, den |-> 1],
     calls_before |-> [w \in Writers |-> Len(ws[w])]]

ZeroMade ==
    [spacepoints |-> 0, modules |-> 0, seeds |-> 0, seeds_cuda |-> 0, found_tracks |-> 0, found_tracks_cuda |-> 0,
     fitted_tracks |-> 0, fitted_tracks_cuda |-> 0]

InitHist ==
    [ev |-> EventHist([w \in Writers |-> << >>]), processed |-> << >>,
     recorded |-> << >>, made |-> ZeroMade, live |-> {},
     streams |-> {},
     comparator_calls |-> 0, summary |-> FALSE, returned |-> -1,
     io |-> [open |-> {}, overlap |-> {}, failed |-> {}, cerr |-> {}],
     thrown |-> "none"]

\* ------------------------------------------------------- stream semantics
\* A stage call with the shared stream enqueues its kernels; its result is
\* pending until the host waits (part_000:338-370: every accelerator
\* algorithm and async_copy are built on the one stream).
Enqueue(p, r) == p \cup {r}

\* The one stream object of the run (part_000:338), and the stream that the
\* step st of event ev enqueues on: async_copy and the four accelerator
\* algorithms are all constructed with it, before the loop (part_000:340-370).
stream == "stream"
StreamPerAlgorithm(st, ev) == st
StreamOf(st, ev) == stream

\* The step that produces a buffer.
Producer(r) ==
    CASE r \in {"spacepoints", "modules", "measurements"} -> "Upload"
      [] r = "seeds" -> "Seed"
      [] r = "params" -> "Estimate"
      [] r = "track_candidates" -> "Find"
      [] r = "track_states" -> "Fit"

\* Buffers constructed at the top of the loop body (part_000:387-396), and
\* those local to the wall-time block, destroyed where it ends
\* (part_000:398, 429-441, 483, 527).
BodyBuffers == {"seeds", "params", "track_candidates", "track_states"}
BlockBuffers == {"spacepoints", "modules", "measurements", "navigation"}

Created(h, names, ev) == [h EXCEPT !.live = @ \cup {<<b, ev>> : b \in names}]
Destroyed(h, names) == [h EXCEPT !.live = {x \in @ : x[1] \notin names}]

\* Observation of the stream a step enqueues on, and of the inputs an
\* accelerator stage is issued with.
OnStream(h, st, ev) ==
    [h EXCEPT !.ev.stream_of = @ \cup {<<st, StreamOf(st, ev)>>},
              !.streams = @ \cup {StreamOf(st, ev)}]
Consumed(h, st, ev, inputs, p) ==
    [h EXCEPT !.ev.consumed = @ \cup
        {<<st, r, r \in p,
           <<Producer(r), StreamOf(st, ev)>> \in h.ev.stream_of>> :
             r \in inputs}]

\* stream.synchronize(): everything enqueued so far has completed.
StreamSynchronize(p) == {}

\* async_copy(buffer, host)->wait(): the copy is enqueued behind the stages on
\* the same stream and the host blocks until the copy's event, so everything
\* enqueued before it has completed (part_000:340, 536-537).
EventWaitNoBlock(p) == p
EventWait(p) == {}

\* A host-side read of an accelerator result, with whether it was complete.
HostRead(r, p) == <<r, r \notin p>>

\* Log of stream.synchronize() calls: the stage just issued.
NoSyncLogged(log, st) == log
SyncLogged(log, st) == Append(log, st)

\* ----------------------------------------------------------- configuration
\* device_finding.get_config().navigation_buffer_size_scaler (part_000:485):
\* fixed at construction; the finding configuration's default.
navigation_buffer_size_scaler == 20

\* ------------------------------------------------------- stage algorithms
\* The algorithms are external; only the shape of their outputs is modelled.

\* Seeding: any number of seeds, none without spacepoints.
SeedingOutputs(spacepoints) == 0 .. spacepoints

\* Track-parameter estimation: one parameter set per seed.
ParamsOutput(seeds) == seeds

\* Candidate container of k candidates, candidate i holding measurement i.
Candidates(k) == [i \in 1 .. k |-> <<i>>]

\* Track finding: up to one candidate per parameter set and measurement.
FindingOutputs(measurements, params) ==
    {Candidates(k) : k \in 0 .. Min(measurements, params)}

\* Track fitting: one fitted track per candidate.
FittingOutput(track_candidates) == Len(track_candidates)

\* is_same_object on the items of two candidates (part_000:569-574).
is_same_object(a, b) == a = b

\* The track-candidate matching loop (part_000:567-579): a CPU candidate
\* counts once if some accelerator candidate has the same items.
RECURSIVE CountMatchesNoBreak(_, _, _)
CountMatchesNoBreak(cpu, cuda, i) ==
    IF i > Len(cpu) THEN 0
    ELSE Cardinality({j \in 1 .. Len(cuda) : is_same_object(cpu[i], cuda[j])})
         + CountMatchesNoBreak(cpu, cuda, i + 1)

\* c without its j-th element.
Without(c, j) == [k \in 1 .. Len(c) - 1 |-> IF k < j THEN c[k] ELSE c[k + 1]]

RECURSIVE CountMatchesConsuming(_, _, _)
CountMatchesConsuming(cpu, cuda, i) ==
    IF i > Len(cpu) THEN 0
    ELSE IF \E j \in 1 .. Len(cuda) : is_same_object(cpu[i], cuda[j])
         THEN LET j == CHOOSE j \in 1 .. Len(cuda) :
                           is_same_object(cpu[i], cuda[j])
              IN 1 + CountMatchesConsuming(cpu, Without(cuda, j), i + 1)
         ELSE CountMatchesConsuming(cpu, cuda, i + 1)

RECURSIVE CountMatchesPositional(_, _, _)
CountMatchesPositional(cpu, cuda, i) ==
    IF i > Len(cpu) THEN 0
    ELSE (IF i <= Len(cuda) /\ is_same_object(cpu[i], cuda[i])
          THEN 1 ELSE 0) + CountMatchesPositional(cpu, cuda, i + 1)

RECURSIVE CountMatches(_, _, _)
CountMatches(cpu, cuda, i) ==
    IF i > Len(cpu) THEN 0
    ELSE (IF \E j \in 1 .. Len(cuda) : is_same_object(cpu[i], cuda[j])
          THEN 1 ELSE 0) + CountMatches(cpu, cuda, i + 1)

n_matches(cpu, cuda) == CountMatches(cpu, cuda, 1)

\* float(n_matches) / track_candidates.size() (part_000:582, 598): the
\* quotient num/den, and NaN (0.0f / 0.0f) for an empty CPU container.
match_rate(matches, size) == [nan |-> size = 0, num |-> matches, den |-> size]

\* --------------------------------------------------------- container copies
\* container_h2d_copy_alg and container_d2h_copy_alg on a two-level
\* container (part_000:325-330, part_001:156-161): the target is sized first,
\* with as many entries as the source and each item sub-sequence as long as
\* the source's (0 stands for an element not yet copied), then the payload is
\* copied into it.
SizedByHeaderOnly(c) == [i \in 1 .. Len(c) |-> << >>]
Sized(c) == [i \in 1 .. Len(c) |-> [j \in 1 .. Len(c[i]) |-> 0]]
Filled(target, c) ==
    [i \in 1 .. Len(target) |-> [j \in 1 .. Len(target[i]) |-> c[i][j]]]

container_h2d_copy_alg(c) == Filled(Sized(c), c)
container_d2h_copy_alg(b) == Filled(Sized(b), b)

\* ---------------------------------------------------------------- mywrite
\* mywrite for seeds (CMakeLists.txt:120-139): the file named by directory,
\* device label and event is opened fresh and written.
mywrite(fs, ev, directory, device) ==
    fs \cup {<<directory, device, ev, "-seeds.txt">>}

\* ------------------------------------------------------------ file streams
\* std::ofstream::open or the constructor with a file name: a handle to
\* path if the file could be opened, a failed stream if not.
OfstreamOpen(io, path, is_open) ==
    IF is_open
    THEN [io EXCEPT !.open = @ \cup {path},
                    !.overlap = IF path \in io.open THEN @ \cup {path} ELSE @]
    ELSE [io EXCEPT !.failed = @ \cup {path}]

\* std::ifstream constructed with a file name.
IfstreamOpen(io, path, is_open) ==
    IF is_open
    THEN [io EXCEPT !.open = @ \cup {path},
                    !.overlap = IF path \in io.open THEN @ \cup {path} ELSE @]
    ELSE io

\* close(), and the destructor of a stream that is still open.
Close(io, path) == [io EXCEPT !.open = @ \ {path}]

\* std::cerr << "Unable to open file: " and the like.
Cerr(io, path) == [io EXCEPT !.cerr = @ \cup {path}]

\* open for append, is_open() ? write and close : report.
AppendLineNoClose(io, path, is_open) ==
    IF is_open THEN OfstreamOpen(io, path, TRUE)
    ELSE Cerr(OfstreamOpen(io, path, FALSE), path)

AppendLine(io, path, is_open) ==
    IF is_open THEN Close(OfstreamOpen(io, path, TRUE), path)
    ELSE Cerr(OfstreamOpen(io, path, FALSE), path)

\* The stream of one mywrite call: constructed, written to, closed; nothing
\* is tested and nothing is reported.
MywriteStream(io, path, is_open) == Close(OfstreamOpen(io, path, is_open), path)

\* ------------------------------------------------------------------- Init
Init ==
    /\ input_opts \in [skip : {0, MaxSkip}, events : 0 .. MaxEvents]
    /\ accelerator_opts \in [compare_with_cpu : BOOLEAN]
    /\ performance_opts \in [run : BOOLEAN]
    /\ pc \in {"Idle", "tf_Idle"}
    /\ stage = "Idle"
    /\ event = 0
    /\ host = EmptyHost
    /\ dev = EmptyDev
    /\ n = ZeroStats
    /\ pending = {}
    /\ writers = [w \in Writers |-> << >>]
    /\ written = {}
    /\ hist = InitHist

Call(ws, w, c) == [ws EXCEPT ![w] = Append(@, c)]

\* ---------------------------------------------------------------- actions
\* part_000:250-372: memory resources, performance writers, counters,
\* geometry, algorithms; nsd_performance_writer.initialize() if enabled.
InitializeNoInit ==
    /\ pc = "Idle"
    /\ pc' = "LoopTest"
    /\ stage' = "Initialized"
    /\ event' = input_opts.skip
    /\ n' = ZeroStats
    /\ UNCHANGED <<writers, opts,
                   host, dev, pending, written, hist>>

Initialize ==
    /\ pc = "Idle"
    /\ pc' = "LoopTest"
    /\ stage' = "Initialized"
    /\ event' = input_opts.skip
    /\ n' = ZeroStats
    /\ writers' = IF performance_opts.run
                  THEN Call(writers, "nsd", "initialize")
                  ELSE writers
    /\ UNCHANGED <<opts,
                   host, dev, pending, written, hist>>

\* part_000:375-396: the loop condition, and the containers and buffers
\* constructed at the top of the body.
LoopTestOffByOne ==
    /\ pc = "LoopTest"
    /\ IF event <= input_opts.events + input_opts.skip
       THEN /\ pc' = "Ingest"
            /\ host' = EmptyHost
            /\ dev' = EmptyDev
            /\ hist' = [Created(hist, BodyBuffers, event) EXCEPT
                           !.processed = Append(@, event)]
       ELSE /\ pc' = "Finalize"
            /\ UNCHANGED <<host, dev, hist>>
    /\ UNCHANGED <<opts, stage,
                   event, n, pending, writers, written>>

LoopTest ==
    /\ pc = "LoopTest"
    /\ IF event < input_opts.events + input_opts.skip
       THEN /\ pc' = "Ingest"
            /\ host' = EmptyHost
            /\ dev' = EmptyDev
            /\ hist' = [Created(hist, BodyBuffers, event) EXCEPT
                           !.processed = Append(@, event)]
       ELSE /\ pc' = "Finalize"
            /\ UNCHANGED <<host, dev, hist>>
    /\ UNCHANGED <<opts, stage,
                   event, n, pending, writers, written>>

\* part_000:404-420: read the spacepoints, modules and measurements of the
\* event: one spacepoint per measurement, each on its own module.
Ingest ==
    /\ pc = "Ingest"
    /\ \E hits \in {0, MaxHits} :
         /\ host' = [host EXCEPT !.spacepoints = hits, !.modules = hits,
                                 !.measurements = hits]
         /\ hist' = [hist EXCEPT !.ev = EventHist(writers),
                                 !.made.spacepoints = @ + hits,
                                 !.made.modules = @ + hits]
    /\ pc' = "Upload"
    /\ stage' = "Ingest"
    /\ UNCHANGED <<opts, event,
                   dev, n, pending, writers, written>>

\* part_000:428-441: device buffers sized from the host collections and
\* filled by asynchronous copies on the stream.
UploadEmptyMeasurements ==
    /\ pc = "Upload"
    /\ dev' = [dev EXCEPT !.spacepoints = host.spacepoints,
                          !.modules = host.modules,
                          !.measurements = 0]
    /\ pending' = Enqueue(Enqueue(Enqueue(pending, "spacepoints"),
                                  "modules"), "measurements")
    /\ hist' = Created(OnStream(hist, "Upload", event),
                       {"spacepoints", "modules", "measurements"}, event)
    /\ pc' = "SeedCuda"
    /\ stage' = "Upload"
    /\ UNCHANGED <<opts, event,
                   host, n, writers, written>>

Upload ==
    /\ pc = "Upload"
    /\ dev' = [dev EXCEPT !.spacepoints = host.spacepoints,
                          !.modules = host.modules,
                          !.measurements = host.measurements]
    /\ pending' = Enqueue(Enqueue(Enqueue(pending, "spacepoints"),
                                  "modules"), "measurements")
    /\ hist' = Created(OnStream(hist, "Upload", event),
                       {"spacepoints", "modules", "measurements"}, event)
    /\ pc' = "SeedCuda"
    /\ stage' = "Upload"
    /\ UNCHANGED <<opts, event,
                   host, n, writers, written>>

\* Observation helpers.
Issued(h, st) == [h EXCEPT !.ev.issued = @ \cup {st}]
CpuRan(h, st) ==
    [h EXCEPT !.ev.cpu_ran = @ \cup {st},
              !.ev.cpu_saw = @ \cup {<<st, h.ev.issued>>}]
Read(h, r, p) == [h EXCEPT !.ev.reads = @ \cup {HostRead(r, p)}]
Given(h, path, measurements) ==
    [h EXCEPT !.ev.measurements_given = @ \cup {<<path, measurements>>}]
Allocated(h, ev, size) ==
    [h EXCEPT !.ev.nav = Append(@, [event |-> ev, size |-> size,
                                    after |-> h.ev.issued])]
Passed(h, st) == [h EXCEPT !.ev.nav_passed = @ \cup {<<st, Len(h.ev.nav)>>}]

\* part_000:443-448: accelerator seeding, then stream.synchronize().
SeedCuda ==
    /\ pc = "SeedCuda"
    /\ \E out \in SeedingOutputs(dev.spacepoints) :
         /\ dev' = [dev EXCEPT !.seeds = out]
         /\ hist' = [Issued(OnStream(Consumed(hist, "Seed", event,
                                 {"spacepoints"}, pending), "Seed", event),
                            "Seed") EXCEPT
                        !.ev.syncs = SyncLogged(@, "Seed"),
                        !.made.seeds_cuda = @ + out]
    /\ pending' = StreamSynchronize(Enqueue(pending, "seeds"))
    /\ pc' = "SeedCpu"
    /\ stage' = "Seed"
    /\ UNCHANGED <<opts, event,
                   host, n, writers, written>>

\* part_000:452-458: CPU seeding, only with compare_with_cpu.
SeedCpuAlways ==
    /\ pc = "SeedCpu"
    /\ \E out \in SeedingOutputs(host.spacepoints) :
         /\ host' = [host EXCEPT !.seeds = out]
         /\ hist' = [CpuRan(hist, "Seed") EXCEPT !.made.seeds = @ + out]
    /\ pc' = "EstimateCuda"
    /\ UNCHANGED <<opts, stage,
                   event, dev, n, pending, writers, written>>

SeedCpu ==
    /\ pc = "SeedCpu"
    /\ IF accelerator_opts.compare_with_cpu
       THEN \E out \in SeedingOutputs(host.spacepoints) :
              /\ host' = [host EXCEPT !.seeds = out]
              /\ hist' = [CpuRan(hist, "Seed") EXCEPT !.made.seeds = @ + out]
       ELSE UNCHANGED <<host, hist>>
    /\ pc' = "EstimateCuda"
    /\ UNCHANGED <<opts, stage,
                   event, dev, n, pending, writers, written>>

\* part_000:465-472: accelerator parameter estimation, then
\* stream.synchronize().
EstimateCuda ==
    /\ pc = "EstimateCuda"
    /\ dev' = [dev EXCEPT !.params = ParamsOutput(dev.seeds)]
    /\ hist' = [Issued(OnStream(Consumed(hist, "Estimate", event,
                            {"spacepoints", "seeds"}, pending),
                            "Estimate", event), "Estimate") EXCEPT
                   !.ev.syncs = SyncLogged(@, "Estimate")]
    /\ pending' = StreamSynchronize(Enqueue(pending, "params"))
    /\ pc' = "EstimateCpu"
    /\ stage' = "Estimate"
    /\ UNCHANGED <<opts, event,
                   host, n, writers, written>>

\* part_000:475-480: CPU parameter estimation, only with compare_with_cpu.
EstimateCpu ==
    /\ pc = "EstimateCpu"
    /\ IF accelerator_opts.compare_with_cpu
       THEN /\ host' = [host EXCEPT !.params = ParamsOutput(host.seeds)]
            /\ hist' = CpuRan(hist, "Estimate")
       ELSE UNCHANGED <<host, hist>>
    /\ pc' = "NavigationBuffer"
    /\ UNCHANGED <<opts, stage,
                   event, dev, n, pending, writers, written>>

\* part_000:483-487: the navigation buffer, sized from the seed count read
\* back from the seed buffer with copy.get_size.
NavigationBufferOfCpuSeeds ==
    /\ pc = "NavigationBuffer"
    /\ dev' = [dev EXCEPT
                  !.navigation = navigation_buffer_size_scaler * host.seeds]
    /\ hist' = Allocated(hist, event,
                         navigation_buffer_size_scaler * host.seeds)
    /\ pc' = "FindCuda"
    /\ UNCHANGED <<opts, stage,
                   event, host, n, pending, writers, written>>

NavigationBuffer ==
    /\ pc = "NavigationBuffer"
    /\ dev' = [dev EXCEPT
                  !.navigation = navigation_buffer_size_scaler * dev.seeds]
    /\ hist' = Created(Allocated(Read(hist, "seeds", pending), event,
                                 navigation_buffer_size_scaler * dev.seeds),
                       {"navigation"}, event)
    /\ pc' = "FindCuda"
    /\ UNCHANGED <<opts, stage,
                   event, host, n, pending, writers, written>>

\* part_000:493-499: accelerator track finding; no synchronize follows.
FindCuda ==
    /\ pc = "FindCuda"
    /\ \E out \in FindingOutputs(dev.measurements, dev.params) :
         /\ dev' = [dev EXCEPT !.track_candidates = out]
         /\ hist' = [Given(Passed(Issued(OnStream(Consumed(hist, "Find",
                                 event, {"measurements", "params"}, pending),
                                 "Find", event), "Find"), "Find"),
                            "cuda", dev.measurements) EXCEPT
                        !.made.found_tracks_cuda = @ + Len(out)]
    /\ pending' = Enqueue(pending, "track_candidates")
    /\ pc' = "FindCpu"
    /\ stage' = "Find"
    /\ UNCHANGED <<opts, event,
                   host, n, writers, written>>

\* part_000:501-506: CPU track finding, only with compare_with_cpu.
FindCpu ==
    /\ pc = "FindCpu"
    /\ IF accelerator_opts.compare_with_cpu
       THEN \E out \in FindingOutputs(host.measurements, host.params) :
              /\ host' = [host EXCEPT !.track_candidates = out]
              /\ hist' = [Given(CpuRan(hist, "Find"), "cpu",
                                    host.measurements) EXCEPT
                             !.made.found_tracks = @ + Len(out)]
       ELSE UNCHANGED <<host, hist>>
    /\ pc' = "FitCuda"
    /\ UNCHANGED <<opts, stage,
                   event, dev, n, pending, writers, written>>

\* part_000:512-519: accelerator track fitting; no synchronize follows.
FitCudaThenCompare ==
    /\ pc = "FitCuda"
    /\ dev' = [dev EXCEPT
                  !.track_states = FittingOutput(dev.track_candidates)]
    /\ hist' = [Passed(Issued(OnStream(Consumed(hist, "Fit", event,
                            {"track_candidates"}, pending), "Fit", event),
                            "Fit"), "Fit") EXCEPT
                   !.made.fitted_tracks_cuda =
                       @ + FittingOutput(dev.track_candidates)]
    /\ pending' = Enqueue(pending, "track_states")
    /\ pc' = "Compare"
    /\ stage' = "Fit"
    /\ UNCHANGED <<opts, event,
                   host, n, writers, written>>

FitCuda ==
    /\ pc = "FitCuda"
    /\ dev' = [dev EXCEPT
                  !.track_states = FittingOutput(dev.track_candidates)]
    /\ hist' = [Passed(Issued(OnStream(Consumed(hist, "Fit", event,
                            {"track_candidates"}, pending), "Fit", event),
                            "Fit"), "Fit") EXCEPT
                   !.made.fitted_tracks_cuda =
                       @ + FittingOutput(dev.track_candidates)]
    /\ pending' = Enqueue(pending, "track_states")
    /\ pc' = "FitCpu"
    /\ stage' = "Fit"
    /\ UNCHANGED <<opts, event,
                   host, n, writers, written>>

\* part_000:521-527: CPU track fitting, only with compare_with_cpu; the
\* wall-time block ends and its buffers are destroyed.
FitCpuSkipped ==
    /\ pc = "FitCpu"
    /\ pc' = "DownloadSeeds"
    /\ UNCHANGED <<opts, stage,
                   event, host, dev, n, pending, writers, written, hist>>

FitCpu ==
    /\ pc = "FitCpu"
    /\ IF accelerator_opts.compare_with_cpu
       THEN /\ host' = [host EXCEPT
                  !.track_states = FittingOutput(host.track_candidates)]
            /\ hist' = [Destroyed(CpuRan(hist, "Fit"), BlockBuffers) EXCEPT
                  !.made.fitted_tracks =
                      @ + FittingOutput(host.track_candidates)]
       ELSE /\ hist' = Destroyed(hist, BlockBuffers)
            /\ UNCHANGED host
    /\ pc' = "DownloadSeeds"
    /\ UNCHANGED <<opts, stage,
                   event, dev, n, pending, writers, written>>

\* part_000:534, 536: async_copy(seeds_cuda_buffer, seeds_cuda)->wait().
DownloadSeeds ==
    /\ pc = "DownloadSeeds"
    /\ pending' = EventWait(pending)
    /\ host' = [host EXCEPT !.seeds_cuda = dev.seeds]
    /\ hist' = Read(hist, "seeds", pending')
    /\ pc' = "DownloadParams"
    /\ stage' = "Download"
    /\ UNCHANGED <<opts, event,
                   dev, n, writers, written>>

\* part_000:535, 537: async_copy(params_cuda_buffer, params_cuda)->wait().
DownloadParams ==
    /\ pc = "DownloadParams"
    /\ pending' = EventWait(pending)
    /\ host' = [host EXCEPT !.params_cuda = dev.params]
    /\ hist' = Read(hist, "params", pending')
    /\ pc' = "DownloadCandidates"
    /\ UNCHANGED <<opts, stage,
                   event, dev, n, writers, written>>

\* part_000:323-327, 540-541: track_candidate_d2h, built on the synchronous
\* copy object; no stream.synchronize() and no wait() is issued here.
DownloadCandidates ==
    /\ pc = "DownloadCandidates"
    /\ host' = [host EXCEPT !.track_candidates_cuda =
                                container_d2h_copy_alg(dev.track_candidates)]
    /\ hist' = Read(hist, "track_candidates", pending)
    /\ pc' = "DownloadStates"
    /\ UNCHANGED <<opts, stage,
                   event, dev, n, pending, writers, written>>

\* part_000:329-330, 544-545: track_state_d2h, on the synchronous copy.
DownloadStates ==
    /\ pc = "DownloadStates"
    /\ host' = [host EXCEPT !.track_states_cuda = dev.track_states]
    /\ hist' = Read(hist, "track_states", pending)
    /\ pc' = "Compare"
    /\ UNCHANGED <<opts, stage,
                   event, dev, n, pending, writers, written>>

\* part_000:547-613: the comparator block, only with compare_with_cpu: seed
\* and parameter comparators, the track-candidate matching loop, and one line
\* appended to track_candidate.txt unless the file cannot be opened.
track_candidate_txt == <<"", "", -1, "track_candidate.txt">>

CompareAbortsOnMismatch ==
    /\ pc = "Compare"
    /\ IF accelerator_opts.compare_with_cpu
       THEN /\ hist' = [hist EXCEPT
                  !.ev.compared = TRUE,
                  !.ev.quiet_at_compare = (pending = {}),
                  !.ev.n_matches = n_matches(host.track_candidates,
                                             host.track_candidates_cuda),
                  !.ev.rate = match_rate(
                      n_matches(host.track_candidates,
                                host.track_candidates_cuda),
                      Len(host.track_candidates)),
                  !.comparator_calls = @ + 1]
            /\ \E is_open \in BOOLEAN :
                 written' = IF is_open THEN written \cup {track_candidate_txt}
                          ELSE written
            /\ pc' = IF n_matches(host.track_candidates,
                                  host.track_candidates_cuda)
                         < Len(host.track_candidates)
                     THEN "Finalize" ELSE "Record"
       ELSE /\ UNCHANGED <<hist, written>>
            /\ pc' = "Record"
    /\ stage' = "Compare"
    /\ UNCHANGED <<opts, event, host, dev, n, pending, writers>>

Compare ==
    /\ pc = "Compare"
    /\ IF accelerator_opts.compare_with_cpu
       THEN \E is_open \in BOOLEAN :
                 /\ hist' = [hist EXCEPT
                  !.ev.compared = TRUE,
                  !.ev.quiet_at_compare = (pending = {}),
                  !.ev.n_matches = n_matches(host.track_candidates,
                                             host.track_candidates_cuda),
                  !.ev.rate = match_rate(
                      n_matches(host.track_candidates,
                                host.track_candidates_cuda),
                      Len(host.track_candidates)),
                  !.comparator_calls = @ + 1,
                  !.io = AppendLine(@, track_candidate_txt, is_open)]
                 /\ written' = IF is_open
                               THEN written \cup {track_candidate_txt}
                               ELSE written
       ELSE UNCHANGED <<hist, written>>
    /\ pc' = "Record"
    /\ stage' = "Compare"
    /\ UNCHANGED <<opts, event, host, dev, n, pending, writers>>

\* part_000:619-626: the output stats.
RecordSwapped ==
    /\ pc = "Record"
    /\ n' = [n EXCEPT
                !.spacepoints = @ + host.spacepoints,
                !.modules = @ + host.modules,
                !.seeds_cuda = @ + host.seeds,
                !.seeds = @ + host.seeds_cuda,
                !.found_tracks_cuda = @ + Len(host.track_candidates_cuda),
                !.found_tracks = @ + Len(host.track_candidates),
                !.fitted_tracks_cuda = @ + host.track_states_cuda,
                !.fitted_tracks = @ + host.track_states]
    /\ hist' = [hist EXCEPT !.recorded = Append(@, event)]
    /\ pc' = "Writer"
    /\ stage' = "Record"
    /\ UNCHANGED <<opts, event, host, dev, pending, writers, written>>

RecordOverwrites ==
    /\ pc = "Record"
    /\ n' = [n EXCEPT
                !.spacepoints = host.spacepoints,
                !.modules = host.modules,
                !.seeds_cuda = host.seeds_cuda,
                !.seeds = host.seeds,
                !.found_tracks_cuda = Len(host.track_candidates_cuda),
                !.found_tracks = Len(host.track_candidates),
                !.fitted_tracks_cuda = host.track_states_cuda,
                !.fitted_tracks = host.track_states]
    /\ hist' = [hist EXCEPT !.recorded = Append(@, event)]
    /\ pc' = "Writer"
    /\ stage' = "Record"
    /\ UNCHANGED <<opts, event, host, dev, pending, writers, written>>

Record ==
    /\ pc = "Record"
    /\ n' = [n EXCEPT
                !.spacepoints = @ + host.spacepoints,
                !.modules = @ + host.modules,
                !.seeds_cuda = @ + host.seeds_cuda,
                !.seeds = @ + host.seeds,
                !.found_tracks_cuda = @ + Len(host.track_candidates_cuda),
                !.found_tracks = @ + Len(host.track_candidates),
                !.fitted_tracks_cuda = @ + host.track_states_cuda,
                !.fitted_tracks = @ + host.track_states]
    /\ hist' = [hist EXCEPT !.recorded = Append(@, event)]
    /\ pc' = "Writer"
    /\ stage' = "Record"
    /\ UNCHANGED <<opts, event, host, dev, pending, writers, written>>

\* part_000:632-635: both seed dumps, whatever compare_with_cpu is.
\* The file of either dump exists afterwards only if its stream could open it.
seeds_txt(ev, directory, device) == <<directory, device, ev, "-seeds.txt">>

Writer ==
    /\ pc = "Writer"
    /\ \E cpu_open \in BOOLEAN, cuda_open \in BOOLEAN :
         LET cpu == IF cpu_open THEN mywrite(written, event, "cpu/", "")
                    ELSE written
         IN /\ written' = IF cuda_open THEN mywrite(cpu, event, "cuda/", "")
                          ELSE cpu
            /\ hist' = [hist EXCEPT !.io =
                   MywriteStream(
                       MywriteStream(@, seeds_txt(event, "cpu/", ""), cpu_open),
                       seeds_txt(event, "cuda/", ""), cuda_open)]
    /\ pc' = "PerfWrite"
    /\ UNCHANGED <<opts, stage, event, host, dev, n, pending, writers>>

\* c repeated k times at the end of w's calls.
RECURSIVE Calls(_, _, _, _)
Calls(ws, w, c, k) == IF k = 0 THEN ws ELSE Calls(Call(ws, w, c), w, c, k - 1)

\* part_000:637-657: with performance_opts.run, one write to the seeding
\* writer, one to the finding writer, and one to the fitting writer per
\* fitted accelerator track.
PerfWriteOncePerEvent ==
    /\ pc = "PerfWrite"
    /\ writers' = IF performance_opts.run
                  THEN Call(Call(Call(writers, "sd", "write"),
                                 "find", "write"), "fit", "write")
                  ELSE writers
    /\ pc' = "EndIteration"
    /\ UNCHANGED <<opts, stage, event, host, dev, n, pending, written, hist>>

PerfWrite ==
    /\ pc = "PerfWrite"
    /\ writers' = IF performance_opts.run
                  THEN Calls(Call(Call(writers, "sd", "write"),
                                  "find", "write"),
                             "fit", "write", host.track_states_cuda)
                  ELSE writers
    /\ pc' = "EndIteration"
    /\ UNCHANGED <<opts, stage, event, host, dev, n, pending, written, hist>>

\* part_000:376, 680: the containers and buffers of the iteration go out of
\* scope, ++event; the observation of written files starts afresh.
EndIterationKeepsBuffers ==
    /\ pc = "EndIteration"
    /\ event' = event + 1
    /\ host' = EmptyHost
    /\ written' = {}
    /\ pc' = "LoopTest"
    /\ UNCHANGED <<opts, stage, dev, n, pending, writers, hist>>

EndIteration ==
    /\ pc = "EndIteration"
    /\ event' = event + 1
    /\ host' = EmptyHost
    /\ dev' = EmptyDev
    /\ hist' = [Destroyed(hist, BodyBuffers \cup BlockBuffers) EXCEPT
                   !.io.failed = {}, !.io.cerr = {}]
    /\ written' = {}
    /\ pc' = "LoopTest"
    /\ UNCHANGED <<opts, stage, n, pending, writers>>

\* part_000:682-688: with performance_opts.run, finalize on all four writers.
Finalize ==
    /\ pc = "Finalize"
    /\ writers' = IF performance_opts.run
                  THEN Call(Call(Call(Call(writers, "sd", "finalize"),
                            "nsd", "finalize"), "find", "finalize"),
                            "fit", "finalize")
                  ELSE writers
    /\ pc' = "Summary"
    /\ stage' = "Finalized"
    /\ UNCHANGED <<opts, event, host, dev, n, pending, written, hist>>

\* part_000:690-703: the statistics and the elapsed times on standard output.
SummaryRewrites ==
    /\ pc = "Summary"
    /\ hist' = [hist EXCEPT !.summary = TRUE]
    /\ writers' = IF performance_opts.run
                  THEN Call(writers, "fit", "write")
                  ELSE writers
    /\ pc' = "TimingFiles"
    /\ UNCHANGED <<opts, stage, event, host, dev, n, pending, written>>

Summary ==
    /\ pc = "Summary"
    /\ hist' = [hist EXCEPT !.summary = TRUE]
    /\ pc' = "TimingFiles"
    /\ UNCHANGED <<opts, stage, event, host, dev, n, pending, writers, written>>

\* part_000:706-761: the elapsed times appended to tempo_time.txt, then
\* tempo_time.txt re-read and its numbers written to processing_time.txt;
\* return 1 if either of the last two files cannot be opened, else 0.
tempo_time_txt == <<"", "", -1, "tempo_time.txt">>
processing_time_txt == <<"", "", -1, "processing_time.txt">>

TimingFiles ==
    /\ pc = "TimingFiles"
    /\ \E tempo_open \in BOOLEAN, input_open \in BOOLEAN, output_open \in BOOLEAN :
         LET appended == AppendLine(hist.io, tempo_time_txt, tempo_open)
             input == IfstreamOpen(appended, tempo_time_txt, input_open)
             output == OfstreamOpen(input, processing_time_txt, output_open)
         IN /\ written' = (written \cup (IF tempo_open THEN {tempo_time_txt} ELSE {}))
                        \cup (IF input_open /\ output_open
                              THEN {processing_time_txt} ELSE {})
            /\ hist' = [hist EXCEPT
                  !.returned = IF input_open /\ output_open THEN 0 ELSE 1,
                  !.io = IF ~input_open THEN Cerr(input, tempo_time_txt)
                         ELSE IF ~output_open
                         THEN Close(Cerr(output, processing_time_txt),
                                    tempo_time_txt)
                         ELSE Close(Close(output, tempo_time_txt),
                                    processing_time_txt)]
    /\ pc' = "Done"
    /\ UNCHANGED <<opts, stage, event, host, dev, n, pending, writers>>

\* ------------------------------------------- the truth-fitting driver
\* part_001:56-183: options, memory resources, the fitting performance
\* writer, counters, geometry, copy algorithms, fitting algorithms.
TfInitialize ==
    /\ pc = "tf_Idle"
    /\ pc' = "tf_LoopTest"
    /\ event' = input_opts.skip
    /\ n' = ZeroStats
    /\ UNCHANGED <<opts, stage, host, dev, pending, writers, written, hist>>

\* part_001:186-187: the loop condition.
TfLoopTest ==
    /\ pc = "tf_LoopTest"
    /\ IF event < input_opts.events + input_opts.skip
       THEN /\ pc' = "tf_TruthCandidates"
            /\ hist' = [hist EXCEPT !.processed = Append(@, event)]
       ELSE /\ pc' = "tf_Finalize"
            /\ UNCHANGED hist
    /\ UNCHANGED <<opts, stage, event, host, dev, n, pending, writers,
                   written>>

\* part_001:190-200: the truth track candidates of the event, and their
\* upload with track_candidate_h2d.
TfTruthCandidates ==
    /\ pc = "tf_TruthCandidates"
    /\ \E k \in 0 .. MaxHits :
         /\ host' = [EmptyHost EXCEPT !.track_candidates = Candidates(k)]
         /\ dev' = [EmptyDev EXCEPT !.track_candidates =
                                        container_h2d_copy_alg(Candidates(k))]
    /\ hist' = [Created(hist, {"track_candidates"}, event) EXCEPT
                   !.ev = EventHist(writers)]
    /\ pc' = "tf_NavigationBuffer"
    /\ UNCHANGED <<opts, stage, event, n, pending, writers, written>>

\* part_001:203-208: the navigation buffer, sized by the number of truth
\* candidates, and the track-state buffer.
TfNavigationBuffer ==
    /\ pc = "tf_NavigationBuffer"
    /\ dev' = [dev EXCEPT !.navigation = Len(host.track_candidates)]
    /\ hist' = Created(Allocated(hist, event, Len(host.track_candidates)),
                       {"navigation", "track_states"}, event)
    /\ pc' = "tf_FitCuda"
    /\ UNCHANGED <<opts, stage, event, host, n, pending, writers, written>>

\* part_001:210-217: accelerator track fitting.
TfFitCuda ==
    /\ pc = "tf_FitCuda"
    /\ dev' = [dev EXCEPT
                  !.track_states = FittingOutput(dev.track_candidates)]
    /\ hist' = [Passed(Issued(hist, "Fit"), "Fit") EXCEPT
                   !.made.fitted_tracks_cuda =
                       @ + FittingOutput(dev.track_candidates)]
    /\ pc' = "tf_DownloadStates"
    /\ UNCHANGED <<opts, stage, event, host, n, pending, writers, written>>

\* part_001:219-220: track_state_d2h.
TfDownloadStates ==
    /\ pc = "tf_DownloadStates"
    /\ host' = [host EXCEPT !.track_states_cuda = dev.track_states]
    /\ pc' = "tf_FitCpu"
    /\ UNCHANGED <<opts, stage, event, dev, n, pending, writers, written,
                   hist>>

\* part_001:223-235: CPU track fitting, only with run_cpu.
TfFitCpu ==
    /\ pc = "tf_FitCpu"
    /\ IF accelerator_opts.compare_with_cpu
       THEN /\ host' = [host EXCEPT
                  !.track_states = FittingOutput(host.track_candidates)]
            /\ hist' = [hist EXCEPT
                  !.ev.cpu_ran = @ \cup {"Fit"},
                  !.made.fitted_tracks =
                      @ + FittingOutput(host.track_candidates)]
       ELSE UNCHANGED <<host, hist>>
    /\ pc' = "tf_Compare"
    /\ UNCHANGED <<opts, stage, event, dev, n, pending, writers, written>>

\* part_001:237-247: the fitted-track comparator, only with run_cpu.
TfCompare ==
    /\ pc = "tf_Compare"
    /\ hist' = IF accelerator_opts.compare_with_cpu
               THEN [hist EXCEPT !.ev.compared = TRUE,
                                 !.comparator_calls = @ + 1]
               ELSE hist
    /\ pc' = "tf_Record"
    /\ UNCHANGED <<opts, stage, event, host, dev, n, pending, writers,
                   written>>

\* part_001:249-251: the output stats.
TfRecord ==
    /\ pc = "tf_Record"
    /\ n' = [n EXCEPT
                !.fitted_tracks = @ + host.track_states,
                !.fitted_tracks_cuda = @ + host.track_states_cuda]
    /\ hist' = [hist EXCEPT !.recorded = Append(@, event)]
    /\ pc' = "tf_PerfWrite"
    /\ UNCHANGED <<opts, stage, event, host, dev, pending, writers, written>>

\* part_001:253-263: with check_performance, one write to the fitting writer
\* per fitted accelerator track.
TfPerfWrite ==
    /\ pc = "tf_PerfWrite"
    /\ writers' = IF performance_opts.run
                  THEN Calls(writers, "fit", "write", host.track_states_cuda)
                  ELSE writers
    /\ pc' = "tf_EndIteration"
    /\ UNCHANGED <<opts, stage, event, host, dev, n, pending, written, hist>>

\* part_001:187, 264: end of the iteration, ++event.
TfEndIteration ==
    /\ pc = "tf_EndIteration"
    /\ event' = event + 1
    /\ host' = EmptyHost
    /\ dev' = EmptyDev
    /\ hist' = Destroyed(hist, BodyBuffers \cup BlockBuffers)
    /\ pc' = "tf_LoopTest"
    /\ UNCHANGED <<opts, stage, n, pending, writers, written>>

\* part_001:266-268: with check_performance, finalize on the fitting writer.
TfFinalize ==
    /\ pc = "tf_Finalize"
    /\ writers' = IF performance_opts.run
                  THEN Call(writers, "fit", "finalize")
                  ELSE writers
    /\ pc' = "tf_Summary"
    /\ UNCHANGED <<opts, stage, event, host, dev, n, pending, written, hist>>

\* part_001:270-277: the statistics and elapsed times on standard output,
\* then return 1.
TfSummary ==
    /\ pc = "tf_Summary"
    /\ hist' = [hist EXCEPT !.summary = TRUE, !.returned = 1]
    /\ pc' = "tf_Done"
    /\ UNCHANGED <<opts, stage, event, host, dev, n, pending, writers,
                   written>>

Next ==
    \/ Initialize
    \/ LoopTest
    \/ Ingest
    \/ Upload
    \/ SeedCuda
    \/ SeedCpu
    \/ EstimateCuda
    \/ EstimateCpu
    \/ NavigationBuffer
    \/ FindCuda
    \/ FindCpu
    \/ FitCuda
    \/ FitCpu
    \/ DownloadSeeds
    \/ DownloadParams
    \/ DownloadCandidates
    \/ DownloadStates
    \/ Compare
    \/ Record
    \/ Writer
    \/ PerfWrite
    \/ EndIteration
    \/ Finalize
    \/ Summary
    \/ TimingFiles
    \/ TfInitialize
    \/ TfLoopTest
    \/ TfTruthCandidates
    \/ TfNavigationBuffer
    \/ TfFitCuda
    \/ TfDownloadStates
    \/ TfFitCpu
    \/ TfCompare
    \/ TfRecord
    \/ TfPerfWrite
    \/ TfEndIteration
    \/ TfFinalize
    \/ TfSummary

Spec == Init /\ [][Next]_vars

\* ------------------------------------------ the drivers with failing stages
\* The calls of the stage algorithms in the loop body of seq_run
\* (part_000:443-527) and the stage each belongs to.  A failing algorithm
\* throws; the CPU calls are made only with compare_with_cpu.
AccCalls == {"SeedCuda", "EstimateCuda", "FindCuda", "FitCuda"}
CpuCalls == {"SeedCpu", "EstimateCpu", "FindCpu", "FitCpu"}
ThrowingCalls == AccCalls \cup CpuCalls
StageOfCall(call) ==
    CASE call \in {"SeedCuda", "SeedCpu"} -> "Seed"
      [] call \in {"EstimateCuda", "EstimateCpu"} -> "Estimate"
      [] call \in {"FindCuda", "FindCpu"} -> "Find"
      [] call \in {"FitCuda", "FitCpu"} -> "Fit"

\* An exception caught inside the loop body, the iteration given up.
ThrowCaught ==
    /\ pc \in ThrowingCalls
    /\ pc \in CpuCalls => accelerator_opts.compare_with_cpu
    /\ hist' = [hist EXCEPT !.thrown = pc]
    /\ pc' = "EndIteration"
    /\ UNCHANGED <<opts, stage, event, host, dev, n, pending, writers,
                   written>>

\* part_000:375-761, 766-796: neither seq_run nor main has a handler, so an
\* exception thrown by a stage call leaves both and the process is
\* terminated by std::terminate with the status of SIGABRT; nothing after
\* the call is executed.
Throw ==
    /\ pc \in ThrowingCalls
    /\ pc \in CpuCalls => accelerator_opts.compare_with_cpu
    /\ hist' = [hist EXCEPT !.thrown = pc, !.returned = 134]
    /\ pc' = "Aborted"
    /\ host' = EmptyHost
    /\ dev' = EmptyDev
    /\ pending' = {}
    /\ UNCHANGED <<opts, stage, event, n, writers, written>>

InitErr ==
    /\ Init
    /\ input_opts.skip = 0

NextErr ==
    \/ Next
    \/ Throw

SpecErr == InitErr /\ [][NextErr]_vars

\* ------------------------------------------- the comparator on its own
\* The comparator block and the statistics of one event of seq_run, started
\* from the downloads of an event whose finding stages returned any two
\* candidate containers of up to MaxTracks candidates each.
CandidatePool == {<<1>>, <<2>>, <<1, 2>>, <<2, 1>>}
Containers == UNION {[1 .. k -> CandidatePool] : k \in 0 .. MaxTracks}

InitCmp ==
    /\ input_opts = [skip |-> 0, events |-> 1]
    /\ accelerator_opts \in [compare_with_cpu : BOOLEAN]
    /\ performance_opts = [run |-> FALSE]
    /\ pc = "Compare"
    /\ stage = "Download"
    /\ event = 0
    /\ \E cpu \in Containers, cuda \in Containers :
         /\ host = [spacepoints |-> MaxTracks, modules |-> MaxTracks,
                    measurements |-> MaxTracks,
                    seeds |-> IF accelerator_opts.compare_with_cpu
                              THEN Len(cpu) ELSE 0,
                    params |-> IF accelerator_opts.compare_with_cpu
                               THEN Len(cpu) ELSE 0,
                    track_candidates |-> IF accelerator_opts.compare_with_cpu
                                         THEN cpu ELSE << >>,
                    track_states |-> IF accelerator_opts.compare_with_cpu
                                     THEN FittingOutput(cpu) ELSE 0,
                    seeds_cuda |-> Len(cuda), params_cuda |-> Len(cuda),
                    track_candidates_cuda |-> cuda,
                    track_states_cuda |-> FittingOutput(cuda)]
         /\ dev = [spacepoints |-> MaxTracks, modules |-> MaxTracks,
                   measurements |-> MaxTracks,
                   seeds |-> Len(cuda), params |-> Len(cuda),
                   track_candidates |-> cuda,
                   track_states |-> FittingOutput(cuda),
                   navigation |-> navigation_buffer_size_scaler * Len(cuda)]
    /\ n = ZeroStats
    /\ pending = {}
    /\ writers = [w \in Writers |-> << >>]
    /\ written = {}
    /\ hist = [InitHist EXCEPT
                  !.processed = <<0>>,
                  !.ev.issued = AccStages,
                  !.ev.measurements_given =
                      {<<"cuda", MaxTracks>>} \cup
                      (IF accelerator_opts.compare_with_cpu
                       THEN {<<"cpu", MaxTracks>>} ELSE {}),
                  !.ev.stream_of = {<<st, stream>> : st \in AccStages
                                                          \cup {"Upload"}},
                  !.streams = {stream},
                  !.live = {<<b, 0>> : b \in BodyBuffers},
                  !.ev.nav = <<[event |-> 0, size |-> dev.navigation,
                                after |-> {"Seed", "Estimate"}]>>,
                  !.ev.nav_passed = {<<"Find", 1>>, <<"Fit", 1>>}]

NextCmp ==
    \/ Compare
    \/ Record

SpecCmp == InitCmp /\ [][NextCmp]_vars

\* ------------------------------------------- the copies on their own
\* An upload followed at once by a download, in the two steps of each copy:
\* a two-level container of up to MaxTracks entries through
\* container_h2d_copy_alg and container_d2h_copy_alg, and next to it a flat
\* collection of up to MaxHits elements into a buffer sized from it
\* (part_000:437-441).
InitCopy ==
    /\ input_opts = [skip |-> 0, events |-> 1]
    /\ accelerator_opts = [compare_with_cpu |-> FALSE]
    /\ performance_opts = [run |-> FALSE]
    /\ pc = "cp_Size"
    /\ stage = "Idle"
    /\ event = 0
    /\ \E c \in Containers, hits \in 0 .. MaxHits :
         host = [EmptyHost EXCEPT !.track_candidates = c,
                                  !.measurements = hits]
    /\ dev = EmptyDev
    /\ n = ZeroStats
    /\ pending = {}
    /\ writers = [w \in Writers |-> << >>]
    /\ written = {}
    /\ hist = InitHist

\* Host to device, sizing step.
CopySize ==
    /\ pc = "cp_Size"
    /\ dev' = [dev EXCEPT !.track_candidates = Sized(host.track_candidates),
                          !.measurements = host.measurements]
    /\ pc' = "cp_Payload"
    /\ UNCHANGED <<opts, stage, event, host, n, pending, writers, written,
                   hist>>

\* Host to device, payload step.
CopyPayload ==
    /\ pc = "cp_Payload"
    /\ dev' = [dev EXCEPT !.track_candidates =
                              Filled(@, host.track_candidates)]
    /\ pc' = "cp_BackSize"
    /\ UNCHANGED <<opts, stage, event, host, n, pending, writers, written,
                   hist>>

\* Device to host, sizing step.
CopyBackSize ==
    /\ pc = "cp_BackSize"
    /\ host' = [host EXCEPT !.track_candidates_cuda =
                                Sized(dev.track_candidates)]
    /\ pc' = "cp_BackPayload"
    /\ UNCHANGED <<opts, stage, event, dev, n, pending, writers, written,
                   hist>>

\* Device to host, payload step.
CopyBackPayload ==
    /\ pc = "cp_BackPayload"
    /\ host' = [host EXCEPT !.track_candidates_cuda =
                                Filled(@, dev.track_candidates)]
    /\ pc' = "cp_Done"
    /\ UNCHANGED <<opts, stage, event, dev, n, pending, writers, written,
                   hist>>

NextCopy ==
    \/ CopySize
    \/ CopyPayload
    \/ CopyBackSize
    \/ CopyBackPayload

SpecCopy == InitCopy /\ [][NextCopy]_vars

\* --------------------------------------------- the mywrite family alone
\* The seven mywrite overloads (CMakeLists.txt:37-191) at the level of the
\* text they write.  A file name is a sequence of characters and name
\* parts, a line a sequence of tokens: the separator "," and values.  In
\* this specification written maps every file name on disk to its lines
\* and hist is the log of the calls made.
Entities == {"cells", "modules", "measurements", "spacepoints", "seeds",
             "params", "fitted"}

\* The postfix each overload passes to get_event_filename.
Suffix(entity) == "-" \o entity \o ".txt"

\* traccc::io::data_directory() and get_event_filename(event, suffix): the
\* data directory, and "event" followed by the event number at fixed width
\* and the suffix.
data_directory == <<"d", "/">>
get_event_filename(ev, suffix) == <<"event", ev, suffix>>

\* The string each overload writes first.
Header(entity) ==
    CASE entity = "cells" ->
           <<"module_link", ",", "channel0", ",", "channel1", ",",
             "timestamp", ",", "value">>
      [] entity = "modules" ->
           <<"geometry_id", ",", "threshold", ",", "min_center_x", ",",
             "min_center_y", ",", "pitch_x", ",", "pitch_y">>
      [] entity = "measurements" ->
           <<"module_link", ",", "local0", ",", "local1", ",", "var0", ",",
             "var1">>
      [] entity = "spacepoints" ->
           <<"module_link", ",", "x", ",", "y", ",", "z", ",", "r">>
      [] entity = "seeds" ->
           <<"spB_link", ",", "spM_link", ",", "spT_link", ",", "weight",
             ",", "z_vertex">>
      [] entity = "params" ->
           <<"surface_index", ",", "loc0", ",", "loc1", ",", "phi", ",",
             "theta", ",", "qoverp", ",", "time">>
      [] entity = "fitted" ->
           <<"surface_index", ",", "loc0", ",", "loc1", ",", "phi", ",",
             "theta", ",", "qoverp", ",", "time", ",", "ndf", ",", "chi2">>

\* The value of member m of element e, as printed.
Val(m, e) == <<m, e>>

\* What the loop body of each overload streams for one element, up to the
\* std::endl.
Row(entity, e) ==
    CASE entity = "cells" ->
           <<Val("module_link", e), ",", Val("channel0", e), ",",
             Val("channel1", e), ",", Val("time", e), ",",
             Val("activation", e)>>
      [] entity = "modules" ->
           <<Val("surface_link.index", e), ",", Val("threshold", e), ",",
             Val("pixel.min_corner_x", e), ",", Val("pixel.min_corner_y", e),
             ",", Val("pixel.pitch_x", e), ",", Val("pixel.pitch_y", e)>>
      [] entity = "measurements" ->
           <<Val("module_link", e), ",", Val("local[0]", e), ",",
             Val("local[1]", e), ",", Val("variance[0]", e), ",",
             Val("variance[1]", e)>>
      [] entity = "spacepoints" ->
           <<Val("meas.surface_link.index", e), ",", Val("x", e), ",",
             Val("y", e), ",", Val("z", e), ",", Val("radius", e)>>
      [] entity = "seeds" ->
           <<Val("spB_link", e), ",", Val("spM_link", e), ",",
             Val("spT_link", e), ",", Val("weight", e), ",",
             Val("z_vertex", e), ",">>
      [] entity = "params" ->
           <<Val("surface_link.index", e), ",", Val("bound_local[0]", e),
             ",", Val("bound_local[1]", e), ",", Val("phi", e), ",",
             Val("theta", e), ",", Val("qop", e), ",", Val("time", e)>>
      [] entity = "fitted" ->
           <<Val("surface_link.index", e), ",", Val("bound_local[0]", e),
             ",", Val("bound_local[1]", e), ",", Val("phi", e), ",",
             Val("theta", e), ",", Val("qop", e), ",", Val("time", e), ",",
             Val("ndf", e), ",", Val("chi2", e)>>

\* std::ofstream out_file(filename): the file exists and is empty.
OpenAppend(fs, filename) ==
    [f \in DOMAIN fs \cup {filename} |->
        IF f \in DOMAIN fs THEN fs[f] ELSE << >>]

Open(fs, filename) ==
    [f \in DOMAIN fs \cup {filename} |->
        IF f = filename THEN << >> ELSE fs[f]]

\* out_file << ... << std::endl: one more line at the end of the file.
WriteLine(fs, filename, line) == [fs EXCEPT ![filename] = Append(@, line)]

\* The range-for loop of an overload from element i on.
RECURSIVE WriteRows(_, _, _, _, _)
WriteRows(fs, filename, entity, collection, i) ==
    IF i > Len(collection) THEN fs
    ELSE WriteRows(WriteLine(fs, filename, Row(entity, collection[i])),
                   filename, entity, collection, i + 1)

\* The name of the file a call writes.
FileName(ev, directory, entity, device) ==
    data_directory \o directory \o device
        \o get_event_filename(ev, Suffix(entity))

\* One overload, from the construction of the file name to out_file.close().
mywrite_file(fs, ev, directory, entity, collection, device) ==
    LET filename == FileName(ev, directory, entity, device)
    IN WriteRows(WriteLine(Open(fs, filename), filename, Header(entity)),
                 filename, entity, collection, 1)

\* Arguments of the calls: two events, the output directory with and
\* without a device label, collections of up to two elements.
WriteEvents == {0, 1}
WriteTargets == {[directory |-> <<"c", "/">>, device |-> << >>],
                 [directory |-> <<"c", "/">>, device |-> <<"g">>]}
Collections == {<< >>, <<1>>, <<2, 1>>, <<1, 2>>}

InitWrite ==
    /\ input_opts = [skip |-> 0, events |-> 1]
    /\ accelerator_opts = [compare_with_cpu |-> FALSE]
    /\ performance_opts = [run |-> FALSE]
    /\ pc = "wr_Call"
    /\ stage = "Idle"
    /\ event = 0
    /\ host = EmptyHost
    /\ dev = EmptyDev
    /\ n = ZeroStats
    /\ pending = {}
    /\ writers = [w \in Writers |-> << >>]
    /\ written = << >>
    /\ hist = << >>

MyWrite ==
    /\ pc = "wr_Call"
    /\ Len(hist) < MaxCalls
    /\ \E ev \in WriteEvents, t \in WriteTargets, entity \in Entities,
          collection \in Collections :
         /\ written' = mywrite_file(written, ev, t.directory, entity,
                                    collection, t.device)
         /\ hist' = Append(hist, [event |-> ev, directory |-> t.directory,
                                  entity |-> entity, device |-> t.device,
                                  collection |-> collection])
    /\ UNCHANGED <<opts, pc, stage, event, host, dev, n, pending, writers>>

NextWrite == MyWrite

SpecWrite == InitWrite /\ [][NextWrite]_vars

\* ------------------------------------------ the pile-up simulator, twice
\* multi_vtx_simulator (multi_vtx_simulator.hpp:79-167), run twice side by
\* side on the same arguments: setup_pu(nvtx, ntrk_per_vtx), then run() over
\* input_opts.events events.  In this specification hist maps each of the
\* two runs to the state of its simulator, and pc and event are the common
\* position and event_id of the two.
Runs == {1, 2}

\* Values std::random_device may return (multi_vtx_simulator.hpp:83).
Entropy == {0, 1, 2}

\* The seed of a default-constructed generator configuration.
default_seed == 0

\* The k-th triple distz, distx, disty drawn from an engine constructed
\* from seed (multi_vtx_simulator.hpp:84-93): a function of seed and k.
Origin(seed, k) == [engine |-> seed, draw |-> k]

\* The configuration setup_pu gives the generator of vertex i, 0 <= i < nvtx
\* (multi_vtx_simulator.hpp:94-103).
pu_gen_cfg(engine_seed, i, ntrk_per_vtx) ==
    [n_tracks |-> ntrk_per_vtx, origin |-> Origin(engine_seed, i),
     seed |-> default_seed + i]

\* The generator handed to the constructor (multi_vtx_simulator.hpp:65-75).
track_gen == [n_tracks |-> 1, origin |-> "origin", seed |-> default_seed]

\* The tracks one pass over a generator yields: a function of its
\* configuration.
Tracks(cfg) == [k \in 1 .. cfg.n_tracks |-> [cfg |-> cfg, k |-> k]]

\* The tracks of the generators gens[i], gens[i+1], ... in this order.
RECURSIVE PileUp(_, _)
PileUp(gens, i) ==
    IF i > Len(gens) THEN << >>
    ELSE Tracks(gens[i]) \o PileUp(gens, i + 1)

\* The configuration handed to the constructor as writer_cfg, and what a
\* configuration holds once a constructor has moved from it.
writer_cfg == "writer_cfg"
moved_from == "moved_from"

\* The members of a simulator after construction
\* (multi_vtx_simulator.hpp:65-75, 169-177), with what is observed of it:
\* setup_pu, the number of calls of setup_pu, the number of generators the
\* last call found installed and its arguments;
\* particles, per event of run() the writer state as the event left it;
\* particle_id, the particle id of the last writer state.
ZeroSim == [m_pu_track_generators |-> << >>, m_writer_cfg |-> writer_cfg,
            setup_pu |-> [calls |-> 0, before |-> 0, nvtx |-> 0,
                          ntrk_per_vtx |-> 0],
            particles |-> << >>, particle_id |-> 0]

InitSim ==
    /\ input_opts \in [skip : {0}, events : 0 .. MaxEvents,
                       nvtx : 0 .. MaxVtx, ntrk_per_vtx : 1 .. MaxTracks,
                       writer_moves : BOOLEAN]
    /\ accelerator_opts = [compare_with_cpu |-> FALSE]
    /\ performance_opts = [run |-> FALSE]
    /\ pc = "sim_setup_pu"
    /\ stage = "Idle"
    /\ event = 0
    /\ host = EmptyHost
    /\ dev = EmptyDev
    /\ n = ZeroStats
    /\ pending = {}
    /\ writers = [w \in Writers |-> << >>]
    /\ written = {}
    /\ hist = [r \in Runs |-> ZeroSim]

ClearNothing(gens) == gens

\* multi_vtx_simulator.hpp:81: m_pu_track_generators.clear().
Clear(gens) == << >>

\* multi_vtx_simulator.hpp:90-106: the loop of setup_pu from vertex i on.
RECURSIVE SetupLoop(_, _, _, _, _)
SetupLoop(gens, engine_seed, i, nvtx, ntrk_per_vtx) ==
    IF i >= nvtx THEN gens
    ELSE SetupLoop(Append(gens, pu_gen_cfg(engine_seed, i, ntrk_per_vtx)),
                   engine_seed, i + 1, nvtx, ntrk_per_vtx)

\* multi_vtx_simulator.hpp:79-108: setup_pu(nvtx, ntrk_per_vtx) on a
\* simulator sim whose random device yields engine_seed.
setup_pu(sim, engine_seed, nvtx, ntrk_per_vtx) ==
    [sim EXCEPT
        !.m_pu_track_generators =
            SetupLoop(Clear(@), engine_seed, 0, nvtx, ntrk_per_vtx),
        !.setup_pu = [calls |-> @.calls + 1,
                      before |-> Len(sim.m_pu_track_generators),
                      nvtx |-> nvtx, ntrk_per_vtx |-> ntrk_per_vtx]]

\* An earlier call of setup_pu in both runs, with any arguments.
SetupPuEarlier ==
    /\ pc = "sim_setup_pu"
    /\ hist[1].setup_pu.calls + 1 < MaxCalls
    /\ \E nvtx \in 0 .. MaxVtx, ntrk_per_vtx \in 1 .. MaxTracks,
          seed_gen \in [Runs -> Entropy] :
         hist' = [r \in Runs |->
                    setup_pu(hist[r], seed_gen[r], nvtx, ntrk_per_vtx)]
    /\ UNCHANGED <<opts, pc, stage, event, host, dev, n, pending, writers,
                   written>>

\* The last call of setup_pu before run(), in both runs: each run
\* constructs its own std::random_device and seeds its engine from it.
SetupPu ==
    /\ pc = "sim_setup_pu"
    /\ \E seed_gen \in [Runs -> Entropy] :
         hist' = [r \in Runs |->
                    setup_pu(hist[r], seed_gen[r], input_opts.nvtx,
                             input_opts.ntrk_per_vtx)]
    /\ pc' = "sim_run"
    /\ UNCHANGED <<opts, stage, event, host, dev, n, pending, writers,
                   written>>

\* The particle id of a writer state after construction.
first_particle_id == 0

\* multi_vtx_simulator.hpp:116-120: writer_state(event_id,
\* std::move(m_writer_cfg), m_directory) and set_seed(event_id); cfg is
\* the value of m_writer_cfg the constructor receives.
writer_state(event_id, cfg) ==
    [event_id |-> event_id, seed |-> event_id, cfg |-> cfg,
     tracks |-> << >>, ids |-> << >>, propagated |-> << >>,
     particle_id |-> first_particle_id]

\* m_writer_cfg after std::move(m_writer_cfg) was handed to the
\* constructor of writer_t::state, which moves from it or does not.
AfterMove(cfg, moves) == IF moves THEN moved_from ELSE cfg

PropagateNoIncrement(ws, tracks, i) ==
    IF i > Len(tracks) THEN ws
    ELSE [ws EXCEPT !.tracks = @ \o tracks, !.propagated = @ \o tracks,
                    !.ids = @ \o [k \in 1 .. Len(tracks) |-> ws.particle_id]]

\* multi_vtx_simulator.hpp:125-143, 146-163: the body of either track loop
\* from track i of a generator on: write_particle(track), propagate,
\* particle_id++.
RECURSIVE Propagate(_, _, _)
Propagate(ws, tracks, i) ==
    IF i > Len(tracks) THEN ws
    ELSE Propagate([ws EXCEPT !.tracks = Append(@, tracks[i]),
                              !.ids = Append(@, ws.particle_id),
                              !.propagated = Append(@, tracks[i]),
                              !.particle_id = @ + 1],
                   tracks, i + 1)

\* multi_vtx_simulator.hpp:145-164: the loop over m_pu_track_generators
\* from generator g on.
RECURSIVE PropagatePileUp(_, _, _)
PropagatePileUp(ws, gens, g) ==
    IF g > Len(gens) THEN ws
    ELSE PropagatePileUp(Propagate(ws, Tracks(gens[g]), 1), gens, g + 1)

\* multi_vtx_simulator.hpp:113-165: the writer state one iteration of the
\* event loop leaves.
RunEvent(sim, event_id) ==
    PropagatePileUp(Propagate(writer_state(event_id, sim.m_writer_cfg),
                              Tracks(track_gen), 1),
                    sim.m_pu_track_generators, 1)

\* One iteration of the event loop of run() in both runs: the writer state
\* is constructed from the moved m_writer_cfg, the scatterer and the writer
\* are seeded with event_id, then the tracks of the main generator and of
\* every pile-up generator are written and propagated.
SimEvent ==
    /\ pc = "sim_run"
    /\ event < input_opts.events
    /\ hist' = [r \in Runs |->
                  LET ws == RunEvent(hist[r], event)
                  IN [hist[r] EXCEPT
                         !.m_writer_cfg =
                             AfterMove(@, input_opts.writer_moves),
                         !.particles = Append(@, ws),
                         !.particle_id = ws.particle_id]]
    /\ event' = event + 1
    /\ UNCHANGED <<opts, pc, stage, host, dev, n, pending, writers, written>>

\* The loop of run() ends.
SimDone ==
    /\ pc = "sim_run"
    /\ event >= input_opts.events
    /\ pc' = "sim_Done"
    /\ UNCHANGED <<opts, stage, event, host, dev, n, pending, writers,
                   written, hist>>

NextSim ==
    \/ SetupPuEarlier
    \/ SetupPu
    \/ SimEvent
    \/ SimDone

SpecSim == InitSim /\ [][NextSim]_vars

\* ------------------------------------------ the timing files, as text
\* The tail of seq_run (part_000:706-761) on the contents of its two files,
\* over successive runs of the program in one working directory.  In this
\* specification written maps the name of every existing file to its lines,
\* a line is a sequence of characters, and hist lists, per run started, the
\* text of its elapsed times and its return value (-1 until it returns).
MaxChars == 3

Alphabet == {"1", "2", "."}

\* What operator<< prints for elapsedTimes, taken as any one line of text.
TimingLines == UNION {[1 .. k -> Alphabet] : k \in 0 .. MaxChars}

\* part_000:711: open(filename_tempo, std::ios::app) creates the file when
\* it is absent and keeps its content when it exists.
OpenApp(fs, filename) ==
    [f \in DOMAIN fs \cup {filename} |->
        IF f \in DOMAIN fs THEN fs[f] ELSE << >>]

\* part_000:743: the character class \d.
IsDigit(c) == c \in {"1", "2"}

\* The first position from i on that holds a digit, Len(line) + 1 if none.
RECURSIVE FirstDigit(_, _)
FirstDigit(line, i) ==
    IF i > Len(line) \/ IsDigit(line[i]) THEN i ELSE FirstDigit(line, i + 1)

\* The greedy +: the last position of the digits that start at i.
RECURSIVE LastDigit(_, _)
LastDigit(line, i) ==
    IF i < Len(line) /\ IsDigit(line[i + 1]) THEN LastDigit(line, i + 1)
    ELSE i

regex_search_one_digit(line) ==
    LET b == FirstDigit(line, 1)
    IN IF b > Len(line)
       THEN [found |-> FALSE, str |-> << >>, suffix |-> << >>]
       ELSE [found |-> TRUE, str |-> SubSeq(line, b, b),
             suffix |-> SubSeq(line, b + 1, Len(line))]

\* part_000:743, 748: std::regex_search(line, match, numberRegex) with
\* numberRegex \d+ finds the leftmost match and extends it while digits
\* follow; match.str() is the match and match.suffix() what follows it.
regex_search(line) ==
    LET b == FirstDigit(line, 1)
    IN IF b > Len(line)
       THEN [found |-> FALSE, str |-> << >>, suffix |-> << >>]
       ELSE LET e == LastDigit(line, b)
            IN [found |-> TRUE, str |-> SubSeq(line, b, e),
                suffix |-> SubSeq(line, e + 1, Len(line))]

\* part_000:748-753: the inner loop on one line; fs is the file system
\* with processing_time.txt open.
RECURSIVE ExtractLine(_, _)
ExtractLine(fs, line) ==
    LET match == regex_search(line)
    IN IF match.found
       THEN ExtractLine(WriteLine(fs, "processing_time.txt", match.str),
                        match.suffix)
       ELSE fs

\* part_000:746-754: the std::getline loop from line i of the input on.
RECURSIVE ExtractLines(_, _, _)
ExtractLines(fs, input, i) ==
    IF i > Len(input) THEN fs
    ELSE ExtractLines(ExtractLine(fs, input[i]), input, i + 1)

InitTime ==
    /\ input_opts = [skip |-> 0, events |-> 1]
    /\ accelerator_opts = [compare_with_cpu |-> FALSE]
    /\ performance_opts = [run |-> FALSE]
    /\ pc = "tm_Append"
    /\ stage = "Idle"
    /\ event = 0
    /\ host = EmptyHost
    /\ dev = EmptyDev
    /\ n = ZeroStats
    /\ pending = {}
    /\ writers = [w \in Writers |-> << >>]
    /\ written = << >>
    /\ hist = << >>

\* part_000:707-721: the elapsed times and std::endl appended to
\* tempo_time.txt if it opens.
TimeAppend ==
    /\ pc = "tm_Append"
    /\ \E elapsedTimes \in TimingLines, is_open \in BOOLEAN :
         /\ written' = IF is_open
                       THEN WriteLine(OpenApp(written, "tempo_time.txt"),
                                      "tempo_time.txt", elapsedTimes)
                       ELSE written
         /\ hist' = Append(hist, [elapsedTimes |-> elapsedTimes,
                                  appended |-> is_open, returned |-> -1])
    /\ pc' = "tm_Extract"
    /\ UNCHANGED <<opts, stage, event, host, dev, n, pending, writers>>

\* part_000:724-761: tempo_time.txt opened for reading (return 1 if it does
\* not open), processing_time.txt opened afresh (return 1 if it does not
\* open), every match of \d+ written on a line of its own, return 0.  A
\* file that does not exist does not open for reading.
TimeExtract ==
    /\ pc = "tm_Extract"
    /\ \E input_open \in IF "tempo_time.txt" \in DOMAIN written
                         THEN BOOLEAN ELSE {FALSE},
          output_open \in BOOLEAN :
         /\ written' = IF input_open /\ output_open
                       THEN ExtractLines(Open(written, "processing_time.txt"),
                                         written["tempo_time.txt"], 1)
                       ELSE written
         /\ hist' = [hist EXCEPT ![Len(hist)].returned =
                        IF input_open /\ output_open THEN 0 ELSE 1]
    /\ pc' = "tm_Done"
    /\ UNCHANGED <<opts, stage, event, host, dev, n, pending, writers>>

\* The program is started again in the same directory; Starts numbers the
\* starts followed.
Starts == {1, 2}

TimeRerun ==
    /\ pc = "tm_Done"
    /\ Len(hist) < Cardinality(Starts)
    /\ pc' = "tm_Append"
    /\ UNCHANGED <<opts, stage, event, host, dev, n, pending, writers,
                   written, hist>>

NextTime == TimeAppend \/ TimeExtract \/ TimeRerun

SpecTime == InitTime /\ [][NextTime]_vars

\* =================================================================== claims
InEvent == stage \in {"Ingest", "Upload", "Seed", "Estimate", "Find", "Fit",
                      "Download", "Compare", "Record"}
AfterLoop == pc \in {"Finalize", "Summary", "TimingFiles", "Done"}
TfAfterLoop == pc \in {"tf_Finalize", "tf_Summary", "tf_Done"}
TfAfterFit == pc \in {"tf_DownloadStates", "tf_FitCpu", "tf_Compare",
                      "tf_Record", "tf_PerfWrite", "tf_EndIteration"}
TruthFitting == pc \in {"tf_Idle", "tf_LoopTest", "tf_TruthCandidates",
                        "tf_NavigationBuffer", "tf_FitCuda"}
                   \/ TfAfterFit \/ TfAfterLoop

\* The event indices skip, skip+1, ..., skip+k-1.
Range(k) == [i \in 1 .. k |-> input_opts.skip + i - 1]

\* Number of calls c in a writer's log from position from on.
RECURSIVE CountFrom(_, _, _)
CountFrom(log, c, from) ==
    IF from > Len(log) THEN 0
    ELSE (IF log[from] = c THEN 1 ELSE 0) + CountFrom(log, c, from + 1)

Count(log, c) == CountFrom(log, c, 1)

\* write calls writer w received since the iteration began.
EvWrites(w) == CountFrom(writers[w], "write", hist.ev.calls_before[w] + 1)

\* ------------------------------------------------------------------- C1
\* C1: the stage of the run only ever moves to its successor in
\* Idle -> Initialized -> (Ingest -> Upload -> Seed -> Estimate -> Find -> Fit
\* -> Download -> Compare -> Record)* -> Finalized: a stage starts only after
\* the preceding stage of the same event, Ingest of the next event only after
\* Record of the previous one (with the event index advanced by one), and
\* nothing follows Finalized.
StageSucc(st) ==
    CASE st = "Idle" -> {"Initialized"}
      [] st = "Initialized" -> {"Ingest", "Finalized"}
      [] st = "Ingest" -> {"Upload"}
      [] st = "Upload" -> {"Seed"}
      [] st = "Seed" -> {"Estimate"}
      [] st = "Estimate" -> {"Find"}
      [] st = "Find" -> {"Fit"}
      [] st = "Fit" -> {"Download"}
      [] st = "Download" -> {"Compare"}
      [] st = "Compare" -> {"Record"}
      [] st = "Record" -> {"Ingest", "Finalized"}
      [] OTHER -> {}

C1_StageOrder ==
    [][/\ stage' # stage => stage' \in StageSucc(stage)
       /\ (stage = "Record" /\ stage' = "Ingest") =>
              /\ hist.recorded # << >>
              /\ event' = hist.recorded[Len(hist.recorded)] + 1]_vars

C1_Witness ==
    /\ stage = "Finalized"
    /\ Len(hist.recorded) = 2
    /\ pc = "Done"

\* ------------------------------------------------------------------- C2
\* C2: in both drivers the loop body is entered for, and the statistics are
\* recorded for, exactly the event indices skip, skip+1, ... in increasing
\* order, each once; after the loop these are all of [skip, skip+events),
\* also for events = 0, and a finished run has printed the summary.
C2_EventRange ==
    /\ Len(hist.processed) <= input_opts.events
    /\ hist.processed = Range(Len(hist.processed))
    /\ hist.recorded = Range(Len(hist.recorded))
    /\ Len(hist.recorded) \in {Len(hist.processed), Len(hist.processed) - 1}
    /\ (AfterLoop \/ TfAfterLoop) =>
           /\ hist.processed = Range(input_opts.events)
           /\ hist.recorded = Range(input_opts.events)
    /\ pc \in {"Done", "tf_Done"} => hist.summary

C2_Witness ==
    /\ pc = "Done"
    /\ input_opts.skip = 1
    /\ input_opts.events = 2
    /\ hist.recorded = <<1, 2>>
    /\ hist.summary

\* ------------------------------------------------------------------- C3
\* C3: every host-side read of an accelerator result (the seed count for the
\* navigation buffer, the downloads of seeds, parameters, track candidates
\* and track states) happens when the stage that produced the result is no
\* longer pending: a stream synchronize or a blocking wait has occurred since
\* it was enqueued.
C3_SyncBeforeHostRead ==
    \A r \in hist.ev.reads : r[2]

C3_Witness ==
    /\ pc = "Compare"
    /\ hist.ev.issued = AccStages
    /\ hist.ev.reads = {<<r, TRUE>> : r \in Results}

C5_Original ==
    \A x \in hist.ev.cpu_saw : x[2] = AccStages

\* Accelerator stages up to and including st.
UpTo(st) ==
    CASE st = "Seed" -> {"Seed"}
      [] st = "Estimate" -> {"Seed", "Estimate"}
      [] st = "Find" -> {"Seed", "Estimate", "Find"}
      [] st = "Fit" -> AccStages

\* C5 amended: every CPU stage executes after the accelerator stage of the
\* same kind has been issued and before the next accelerator stage is, and
\* when the comparator runs all four CPU stages have executed, all four
\* accelerator stages have been issued and no accelerator work is pending.
C5_CpuStageAfterItsAccStage ==
    /\ \A x \in hist.ev.cpu_saw : x[2] = UpTo(x[1])
    /\ (hist.ev.compared /\ ~TruthFitting) =>
           /\ hist.ev.cpu_ran = CpuStages
           /\ hist.ev.issued = AccStages
           /\ hist.ev.quiet_at_compare

C5_Witness ==
    /\ hist.ev.compared
    /\ Cardinality(hist.ev.cpu_saw) = 4
    /\ hist.ev.quiet_at_compare

\* ------------------------------------------------------------------- C6
\* C6: once the stages of an event have been passed, all accelerator stages
\* of the driver (four in seq_run, fitting in the truth-fitting driver) were
\* issued, and the CPU stages executed are all of them if the CPU flag is
\* set and none if it is not; no CPU stage ever executes without the flag.
C6_CpuStagesIffFlag ==
    /\ hist.ev.cpu_ran # {} => accelerator_opts.compare_with_cpu
    /\ stage \in {"Download", "Compare", "Record"} =>
           /\ hist.ev.issued = AccStages
           /\ hist.ev.cpu_ran = IF accelerator_opts.compare_with_cpu
                                THEN CpuStages ELSE {}
    /\ TfAfterFit => hist.ev.issued = {"Fit"}
    /\ pc \in {"tf_Compare", "tf_Record", "tf_PerfWrite", "tf_EndIteration"} =>
           hist.ev.cpu_ran = IF accelerator_opts.compare_with_cpu
                             THEN {"Fit"} ELSE {}

C6_Witness ==
    /\ stage = "Record"
    /\ accelerator_opts.compare_with_cpu
    /\ hist.ev.cpu_ran = CpuStages
    /\ hist.ev.issued = AccStages

\* ------------------------------------------------------------------- C7
\* C7: in both drivers, without the CPU flag the CPU counters stay 0, the
\* comparator is never invoked, and between iterations and after the loop
\* the accelerator counters equal the totals of what the accelerator stages
\* produced.
C7_CpuCountersStayZero ==
    ~accelerator_opts.compare_with_cpu =>
        /\ n.seeds = 0
        /\ n.found_tracks = 0
        /\ n.fitted_tracks = 0
        /\ hist.comparator_calls = 0
        /\ (pc \in {"LoopTest", "tf_LoopTest"} \/ AfterLoop \/ TfAfterLoop) =>
               /\ n.seeds_cuda = hist.made.seeds_cuda
               /\ n.found_tracks_cuda = hist.made.found_tracks_cuda
               /\ n.fitted_tracks_cuda = hist.made.fitted_tracks_cuda

C7_Witness ==
    /\ ~accelerator_opts.compare_with_cpu
    /\ pc = "Done"
    /\ Len(hist.recorded) = 2
    /\ n.seeds_cuda = 2
    /\ n.fitted_tracks_cuda > 0
    /\ n.seeds = 0

\* ------------------------------------------------------------------- C8
\* C8 as claimed: without compare_with_cpu no CPU-path output file (the cpu/
\* seeds dump, track_candidate.txt) is written in an event.
C8_NoCpuOutputWhenDisabled ==
    ~accelerator_opts.compare_with_cpu =>
        \A f \in written : f[1] # "cpu/" /\ f # track_candidate_txt

Finalized == stage = "Finalized" \/ pc \in {"tf_Summary", "tf_Done"}

C11_FinalizedIsTerminal ==
    [][Finalized =>
          /\ stage' = stage
          /\ writers' = writers
          /\ event' = event
          /\ hist'.processed = hist.processed
          /\ hist'.recorded = hist.recorded
          /\ hist'.ev = hist.ev
          /\ pc' \in {"TimingFiles", "Done", "tf_Done"}]_vars

C11_Witness ==
    /\ pc = "Done"
    /\ stage = "Finalized"
    /\ performance_opts.run
    /\ writers["fit"] = <<"write", "finalize">>
    /\ hist.returned = 0

\* ------------------------------------------------------------------ C12
\* Permutations of 1 .. k, and a container re-ordered by one.
Perms(k) == {f \in [1 .. k -> 1 .. k] :
               \A i, j \in 1 .. k : i # j => f[i] # f[j]}
Reordered(c, f) == [i \in 1 .. Len(c) |-> c[f[i]]]

\* C12: the match count the comparator computes is the number of CPU
\* candidates whose measurement sequence equals that of at least one
\* accelerator candidate, each CPU candidate counted once however many
\* accelerator candidates equal it, and it is the same for every re-ordering
\* of the candidates of either container.
C12_CountsMatchedCpuCandidates ==
    hist.ev.compared =>
        LET cpu == host.track_candidates
            cuda == host.track_candidates_cuda
        IN /\ hist.ev.n_matches =
                  Cardinality({i \in 1 .. Len(cpu) :
                      \E j \in 1 .. Len(cuda) : cpu[i] = cuda[j]})
           /\ hist.ev.n_matches <= Len(cpu)
           /\ \A f \in Perms(Len(cpu)), g \in Perms(Len(cuda)) :
                  n_matches(Reordered(cpu, f), Reordered(cuda, g))
                      = hist.ev.n_matches

C12_Witness ==
    /\ hist.ev.compared
    /\ host.track_candidates = << <<1, 2>>, <<2>> >>
    /\ host.track_candidates_cuda = << <<1, 2>>, <<1, 2>> >>
    /\ hist.ev.n_matches = 1

\* ------------------------------------------------------------------ C13
\* C13: whatever the comparator finds, the step after it records the
\* statistics of the same event and the step after that goes on to the
\* writers; a run that ends has recorded every event of [skip, skip+events),
\* and its exit status is 0 if the timing files could be opened and 1 if
\* not, with or without mismatches.
C13_MismatchNeverAborts ==
    [][/\ pc = "Compare" =>
             /\ pc' = "Record"
             /\ event' = event
             /\ hist'.processed = hist.processed
       /\ pc = "Record" =>
             /\ pc' = "Writer"
             /\ hist'.recorded = Append(hist.recorded, event)
       /\ pc' = "Done" =>
             /\ hist'.recorded = Range(input_opts.events)
             /\ hist'.returned =
                    IF processing_time_txt \in written' THEN 0 ELSE 1]_vars

C13_Witness ==
    /\ pc = "Done"
    /\ hist.ev.compared
    /\ hist.ev.rate = [nan |-> FALSE, num |-> 0, den |-> 1]
    /\ host = EmptyHost
    /\ hist.recorded = <<1, 2>>
    /\ hist.returned = 0

\* ------------------------------------------------------------------ C14
\* Matching predicates on two candidates, as sets of pairs: the exact one
\* (equal sequences) and three relaxed ones that it implies.
ExactMatch == {<<a, b>> \in CandidatePool \X CandidatePool : a = b}
SameMeasurements ==
    {<<a, b>> \in CandidatePool \X CandidatePool :
        {a[i] : i \in 1 .. Len(a)} = {b[i] : i \in 1 .. Len(b)}}
SameFirstMeasurement ==
    {<<a, b>> \in CandidatePool \X CandidatePool : a[1] = b[1]}
AnyMatch == CandidatePool \X CandidatePool
Predicates == {ExactMatch, SameMeasurements, SameFirstMeasurement, AnyMatch}

\* The matching loop with the predicate rel in the place of is_same_object.
RECURSIVE CountUnder(_, _, _, _)
CountUnder(rel, cpu, cuda, i) ==
    IF i > Len(cpu) THEN 0
    ELSE (IF \E j \in 1 .. Len(cuda) : <<cpu[i], cuda[j]>> \in rel
          THEN 1 ELSE 0) + CountUnder(rel, cpu, cuda, i + 1)

\* a <= b on two match rates; no comparison with a NaN holds.
RateLeq(a, b) == ~a.nan /\ ~b.nan /\ a.num * b.den <= b.num * a.den

\* C14 as claimed: for the containers the comparator was given and any two
\* predicates P, Q with P implying Q, the match count and the match rate under
\* P are at most those under Q; the count and the rate the comparator
\* computed are those of the exact predicate.
C14_TighterPredicateMatchesLess ==
    hist.ev.compared =>
        LET cpu == host.track_candidates
            cuda == host.track_candidates_cuda
            size == Len(host.track_candidates)
        IN /\ hist.ev.n_matches = CountUnder(ExactMatch, cpu, cuda, 1)
           /\ \A P \in Predicates, Q \in Predicates :
                  P \subseteq Q =>
                      /\ CountUnder(P, cpu, cuda, 1)
                             <= CountUnder(Q, cpu, cuda, 1)
                      /\ RateLeq(match_rate(CountUnder(P, cpu, cuda, 1), size),
                                 match_rate(CountUnder(Q, cpu, cuda, 1), size))
           /\ \A Q \in Predicates :
                  RateLeq(hist.ev.rate,
                          match_rate(CountUnder(Q, cpu, cuda, 1), size))

\* ------------------------------------------------------------------ C15
\* C15 as claimed: in an event of seq_run with no input spacepoints, once the
\* comparator position is passed, both paths have produced no seeds, the
\* navigation buffer has size 0, parameters, candidates and track states of
\* both paths are empty, and the match rate the comparator printed is a
\* number.
C15_ZeroSpacepointsEvent ==
    (pc \in {"Record", "Writer", "PerfWrite", "EndIteration"}
        /\ host.spacepoints = 0) =>
        /\ host.seeds = 0 /\ host.seeds_cuda = 0
        /\ dev.navigation = 0
        /\ host.params = 0 /\ host.params_cuda = 0
        /\ host.track_candidates = << >>
        /\ host.track_candidates_cuda = << >>
        /\ host.track_states = 0 /\ host.track_states_cuda = 0
        /\ hist.ev.compared => ~hist.ev.rate.nan

\* ------------------------------------------------------------------ C16
\* Positions of seq_run after the navigation buffer was made, up to the end
\* of the iteration.
AfterNavigation ==
    pc \in {"FindCuda", "FindCpu", "FitCuda", "FitCpu", "DownloadSeeds",
            "DownloadParams", "DownloadCandidates", "DownloadStates",
            "Compare", "Record", "Writer", "PerfWrite", "EndIteration"}

\* C16: in seq_run an iteration allocates no navigation buffer before
\* parameter estimation and exactly one after it, in the iteration of the
\* current event, of size navigation_buffer_size_scaler times the seed count
\* of the accelerator seed buffer; accelerator finding and accelerator
\* fitting are both given that one buffer.
C16_OneNavigationBufferPerEvent ==
    /\ Len(hist.ev.nav) <= 1
    /\ pc \in {"Ingest", "Upload", "SeedCuda", "SeedCpu", "EstimateCuda",
               "EstimateCpu", "NavigationBuffer"} =>
           (hist.ev.nav = << >> \/ stage \in {"Initialized", "Record"})
    /\ AfterNavigation =>
           /\ Len(hist.ev.nav) = 1
           /\ hist.ev.nav[1].event = event
           /\ hist.ev.nav[1].after = {"Seed", "Estimate"}
           /\ hist.ev.nav[1].size = navigation_buffer_size_scaler * dev.seeds
           /\ dev.navigation = hist.ev.nav[1].size
           /\ \A u \in hist.ev.nav_passed : u[2] = 1
           /\ hist.ev.nav_passed =
                  {<<st, 1>> : st \in hist.ev.issued \cap {"Find", "Fit"}}

C16_Witness ==
    /\ pc = "FitCpu"
    /\ dev.seeds = 1
    /\ host.seeds = 0
    /\ dev.navigation = 20
    /\ hist.ev.nav_passed = {<<"Find", 1>>, <<"Fit", 1>>}
    /\ Len(hist.processed) = 2

\* ------------------------------------------------------------------ C17
\* C17: every step of seq_run that enqueues accelerator work (the uploads and
\* the four accelerator stages), in every event, enqueues it on the one
\* stream of the run; and whenever an accelerator stage is issued while one
\* of its input buffers is not yet known to be complete, the step producing
\* that buffer was enqueued earlier on the same stream, so that in issue
\* order the input is produced before it is consumed.
C17_OneStreamInIssueOrder ==
    /\ hist.streams \subseteq {stream}
    /\ \A x \in hist.ev.stream_of : x[2] = stream
    /\ \A c \in hist.ev.consumed : c[3] => c[4]
    /\ \A c \in hist.ev.consumed : Producer(c[2]) \in hist.ev.issued
                                                        \cup {"Upload"}
    /\ (stage \in {"Fit", "Download", "Compare"} /\ ~TruthFitting) =>
           /\ {c[1] : c \in hist.ev.consumed} = AccStages
           /\ {x[1] : x \in hist.ev.stream_of} = AccStages \cup {"Upload"}

C17_Witness ==
    /\ pc = "FitCpu"
    /\ Len(hist.processed) = 2
    /\ <<"Fit", "track_candidates", TRUE, TRUE>> \in hist.ev.consumed
    /\ <<"Seed", "spacepoints", TRUE, TRUE>> \in hist.ev.consumed
    /\ <<"Find", "params", FALSE, TRUE>> \in hist.ev.consumed
    /\ hist.streams = {stream}

\* ------------------------------------------------------------------ C18
\* C18: a device buffer is live only during the iteration of the event it
\* was created for; where an iteration begins (the loop test and the top of
\* the loop body) and after the loop, no buffer of an earlier iteration is
\* live and no accelerator work that could hold one is pending; during an
\* iteration of seq_run the buffers of the loop body are live up to its end.
C18_BuffersDieWithTheirIteration ==
    /\ \A b \in hist.live : b[2] = event
    /\ (pc \in {"LoopTest", "tf_LoopTest"} \/ AfterLoop \/ TfAfterLoop) =>
           /\ hist.live = {}
           /\ dev = EmptyDev
    /\ pc \in {"LoopTest", "Ingest", "tf_LoopTest", "tf_TruthCandidates"} =>
           pending = {}
    /\ pc = "Ingest" => hist.live = {<<b, event>> : b \in BodyBuffers}
    /\ (InEvent /\ pc \notin {"LoopTest", "Finalize"}) =>
           {<<b, event>> : b \in BodyBuffers} \subseteq hist.live

C18_Witness ==
    /\ pc = "Ingest"
    /\ hist.recorded = <<1>>
    /\ event = 2
    /\ hist.ev.nav # << >>
    /\ hist.live = {<<b, 2>> : b \in BodyBuffers}

\* ------------------------------------------------------------------ C19
\* C19: in seq_run, from the upload to the end of the iteration the device
\* measurement buffer has as many elements as the host measurement
\* collection read for the event, and the track finding of either path was
\* given that many measurements: the accelerator one the device buffer, the
\* CPU one the host collection.
C19_SameMeasurementsOnBothPaths ==
    /\ pc \in {"SeedCuda", "SeedCpu", "EstimateCuda", "EstimateCpu",
               "NavigationBuffer"} \/ AfterNavigation =>
           /\ dev.measurements = host.measurements
           /\ \A g \in hist.ev.measurements_given : g[2] = host.measurements
    /\ pc \in {"FitCuda", "FitCpu", "DownloadSeeds", "Compare"} =>
           {g[1] : g \in hist.ev.measurements_given} =
               IF accelerator_opts.compare_with_cpu
               THEN {"cuda", "cpu"} ELSE {"cuda"}

C19_Witness ==
    /\ pc = "FitCuda"
    /\ host.measurements = 1
    /\ hist.ev.measurements_given = {<<"cuda", 1>>, <<"cpu", 1>>}
    /\ Len(host.track_candidates) = 1

\* ------------------------------------------------------------------ C20
\* Entry and item counts of a two-level container or buffer.
Shape(c) == [i \in 1 .. Len(c) |-> Len(c[i])]

Counters == DOMAIN ZeroStats

\* Positions between two iterations of either driver, and after the loop.
BetweenEvents == pc \in {"LoopTest", "tf_LoopTest"} \/ AfterLoop \/ TfAfterLoop

\* C21: the counters change only in the Record step, which is taken once
\* per event and adds to each counter without ever lowering one; between
\* two events and after the loop every counter equals the sum, over the
\* events recorded so far, of the size of its per-event collection.
C21_CountersAreSumsOverRecordedEvents ==
    [][/\ n' # n => /\ pc \in {"Record", "tf_Record"}
                     /\ hist'.recorded = Append(hist.recorded, event)
       /\ hist'.recorded # hist.recorded => pc \in {"Record", "tf_Record"}
       /\ \A c \in Counters : n'[c] >= n[c]
       /\ BetweenEvents' =>
              /\ \A c \in Counters : n'[c] = hist'.made[c]
              /\ hist'.recorded = hist'.processed]_vars

C21_Witness ==
    /\ pc = "Done"
    /\ Len(hist.recorded) = 2
    /\ n.spacepoints = 2
    /\ n.seeds_cuda = 2
    /\ n.found_tracks = 2
    /\ n.fitted_tracks_cuda = 2

\* ------------------------------------------------------------------ C29
\* C29: a matched accelerator candidate stays available: every CPU
\* candidate equal to one accelerator candidate is counted, so the match
\* count is at least the number of CPU candidates equal to any single
\* accelerator candidate, and it never exceeds the number of CPU candidates.
C29_AcceleratorCandidatesNotConsumed ==
    hist.ev.compared =>
        LET cpu == host.track_candidates
            cuda == host.track_candidates_cuda
        IN /\ hist.ev.n_matches <= Len(cpu)
           /\ \A j \in 1 .. Len(cuda) :
                  hist.ev.n_matches >=
                      Cardinality({i \in 1 .. Len(cpu) :
                                      is_same_object(cpu[i], cuda[j])})

\* Two equal CPU candidates and one equal accelerator candidate: 2 matches.
C29_Witness ==
    /\ hist.ev.compared
    /\ host.track_candidates = << <<1>>, <<1>> >>
    /\ host.track_candidates_cuda = << <<1>> >>
    /\ hist.ev.n_matches = 2
    /\ hist.ev.n_matches > Len(host.track_candidates_cuda)

\* ------------------------------------------------------------------ C30
\* The set of measurement sequences a container holds.
Sequences(c) == {c[i] : i \in 1 .. Len(c)}

\* C30: when the two containers hold the same non-empty set of measurement
\* sequences, every CPU candidate is matched and the rate printed is the
\* quotient of two equal non-zero numbers, 1.0.
C30_SameSetGivesRateOne ==
    (/\ hist.ev.compared
     /\ host.track_candidates # << >>
     /\ Sequences(host.track_candidates)
            = Sequences(host.track_candidates_cuda)) =>
        /\ hist.ev.n_matches = Len(host.track_candidates)
        /\ ~hist.ev.rate.nan
        /\ hist.ev.rate.num = hist.ev.rate.den
        /\ hist.ev.rate.den > 0

C30_Witness ==
    /\ hist.ev.compared
    /\ host.track_candidates = << <<1, 2>>, <<2>> >>
    /\ host.track_candidates_cuda = << <<2>>, <<1, 2>> >>
    /\ hist.ev.rate = [nan |-> FALSE, num |-> 2, den |-> 2]

\* ------------------------------------------------------------------ C26
\* The file a logged call wrote, the last logged call that wrote file f, and
\* the lines a call streams: its header, then one row per element.
CallFile(c) == FileName(c.event, c.directory, c.entity, c.device)
LastCallTo(f) ==
    hist[CHOOSE i \in 1 .. Len(hist) :
            /\ CallFile(hist[i]) = f
            /\ \A j \in i + 1 .. Len(hist) : CallFile(hist[j]) # f]
LinesOf(c) ==
    <<Header(c.entity)>> \o
        [i \in 1 .. Len(c.collection) |-> Row(c.entity, c.collection[i])]

\* C26: after any calls, the files on disk are those the calls named, each
\* holds the header and the rows of the last call that named it and
\* nothing of an earlier call, and two calls into the same directory that
\* differ in event, entity type or device label named different files.
C26_FreshFilePerKey ==
    /\ DOMAIN written = {CallFile(hist[i]) : i \in 1 .. Len(hist)}
    /\ \A f \in DOMAIN written : written[f] = LinesOf(LastCallTo(f))
    /\ \A i, j \in 1 .. Len(hist) :
           (/\ hist[i].directory = hist[j].directory
            /\ \/ hist[i].event # hist[j].event
               \/ hist[i].entity # hist[j].entity
               \/ hist[i].device # hist[j].device)
               => CallFile(hist[i]) # CallFile(hist[j])

\* The same seeds file written twice, the second time with fewer seeds.
C26_Witness ==
    /\ Len(hist) = 2
    /\ CallFile(hist[1]) = CallFile(hist[2])
    /\ hist[1].entity = "seeds"
    /\ hist[1].collection = <<1, 2>>
    /\ hist[2].collection = <<1>>
    /\ Cardinality(DOMAIN written) = 1
    /\ Len(written[CallFile(hist[2])]) = 2

\* ------------------------------------------------------------------ C27
\* The fields of a line: its tokens split at the separators, an empty
\* field where nothing stands between two separators or after the last.
RECURSIVE Split(_, _, _)
Split(line, i, field) ==
    IF i > Len(line) THEN <<field>>
    ELSE IF line[i] = "," THEN <<field>> \o Split(line, i + 1, << >>)
    ELSE Split(line, i + 1, Append(field, line[i]))
Fields(line) == Split(line, 1, << >>)

\* The element a row field prints, and the elements a row prints.
RowElements(row) ==
    {Fields(row)[k][1][2] : k \in {k \in 1 .. Len(Fields(row)) :
                                       Fields(row)[k] # << >>}}

\* C27 as claimed: every file consists of the header of its entity and one
\* row per element of the collection last written to it, in collection
\* order, and every row has as many fields as the header names: five for
\* seeds, nine for fitted tracks.
C27_RowsHaveTheHeaderFields ==
    \A f \in DOMAIN written :
        LET c == LastCallTo(f)
            lines == written[f]
        IN /\ lines[1] = Header(c.entity)
           /\ Len(lines) = 1 + Len(c.collection)
           /\ \A i \in 1 .. Len(c.collection) :
                  /\ RowElements(lines[i + 1]) = {c.collection[i]}
                  /\ Len(Fields(lines[i + 1])) = Len(Fields(lines[1]))
           /\ c.entity = "seeds" =>
                  \A i \in 2 .. Len(lines) : Len(Fields(lines[i])) = 5
           /\ c.entity = "fitted" =>
                  \A i \in 2 .. Len(lines) : Len(Fields(lines[i])) = 9

\* What does hold: header, one row per element in order, and a row of as
\* many fields as the header names for every entity but seeds, whose rows
\* end in a separator and so carry a sixth, empty field.
C27_AllButSeedRows ==
    \A f \in DOMAIN written :
        LET c == LastCallTo(f)
            lines == written[f]
        IN /\ lines[1] = Header(c.entity)
           /\ Len(lines) = 1 + Len(c.collection)
           /\ \A i \in 1 .. Len(c.collection) :
                  /\ RowElements(lines[i + 1]) = {c.collection[i]}
                  /\ IF c.entity = "seeds"
                     THEN /\ Len(Fields(lines[i + 1])) = 6
                          /\ Fields(lines[i + 1])[6] = << >>
                     ELSE Len(Fields(lines[i + 1])) = Len(Fields(lines[1]))
           /\ c.entity = "seeds" => Len(Fields(lines[1])) = 5
           /\ c.entity = "fitted" =>
                  \A i \in 1 .. Len(lines) : Len(Fields(lines[i])) = 9

\* ------------------------------------------------------------------ C28
\* C28 as claimed: two runs on the same arguments have the same pile-up
\* vertex origins, write the same tracks in every event and count the same
\* number of particles.
C28_RunsAreReproducible ==
    pc \in {"sim_run", "sim_Done"} =>
        /\ \A i \in 1 .. input_opts.nvtx :
               hist[1].m_pu_track_generators[i].origin
                   = hist[2].m_pu_track_generators[i].origin
        /\ hist[1].particles = hist[2].particles
        /\ hist[1].particle_id = hist[2].particle_id

\* What does not depend on the random device: the number of generators,
\* their seeds and track counts, the per-event seeds, and the number of
\* particles of every event.
C28_CountsAreReproducible ==
    pc \in {"sim_run", "sim_Done"} =>
        /\ Len(hist[1].m_pu_track_generators) = input_opts.nvtx
        /\ Len(hist[2].m_pu_track_generators) = input_opts.nvtx
        /\ \A i \in 1 .. input_opts.nvtx :
               /\ hist[1].m_pu_track_generators[i].seed
                      = hist[2].m_pu_track_generators[i].seed
               /\ hist[1].m_pu_track_generators[i].n_tracks
                      = hist[2].m_pu_track_generators[i].n_tracks
        /\ Len(hist[1].particles) = event
        /\ Len(hist[2].particles) = event
        /\ \A e \in 1 .. event :
               /\ hist[1].particles[e].seed = hist[2].particles[e].seed
               /\ Len(hist[1].particles[e].tracks)
                      = Len(hist[2].particles[e].tracks)
        /\ hist[1].particle_id = hist[2].particle_id

\* ------------------------------------------------------------------ C24
\* C24 as claimed: every output file that could not be opened is reported
\* on std::cerr, and a run ends having recorded every event of
\* [skip, skip+events) with the exit status 0 of a run whose files all
\* opened.
C24_OpenFailureOnlySkipsTheWrite ==
    ~TruthFitting =>
        /\ hist.io.failed \subseteq hist.io.cerr
        /\ pc = "Done" => /\ hist.recorded = Range(input_opts.events)
                          /\ hist.returned = 0

\* What does hold: the failed open of track_candidate.txt and of the timing
\* files is reported, and every event is recorded whatever could be opened.
C24_ReportedWhereTested ==
    ~TruthFitting =>
        /\ hist.io.failed \cap {track_candidate_txt, tempo_time_txt,
                                processing_time_txt} \subseteq hist.io.cerr
        /\ pc = "Done" => hist.recorded = Range(input_opts.events)

\* ------------------------------------------------------------------ C25
NumericFiles == {track_candidate_txt, tempo_time_txt, processing_time_txt}

\* C25: no stream ever opens one of the three numeric files while a handle
\* to it is open, and after every step of the driver no handle to any of
\* them is left open, whether the opens of the step succeeded or failed.
C25_OpenAndCloseAlternate ==
    /\ hist.io.overlap \cap NumericFiles = {}
    /\ hist.io.open \cap NumericFiles = {}

\* A run of two compared events whose append to tempo_time.txt failed and
\* whose re-read of it and processing_time.txt opened.
C25_Witness ==
    /\ pc = "Done"
    /\ hist.comparator_calls = 2
    /\ tempo_time_txt \in hist.io.failed
    /\ processing_time_txt \in written
    /\ hist.returned = 0

\* ------------------------------------------------------------------ C22
\* C22 as claimed: a run that ended, by returning or by an unrecoverable
\* error, has printed the summary; a run ended by an error has a non-zero
\* exit status and entered no event after the one that failed.
C22_SummaryAtEveryRunEnd ==
    /\ pc \in {"Done", "Aborted"} => hist.summary
    /\ pc = "Aborted" =>
           /\ hist.returned # 0
           /\ hist.processed = Range(Len(hist.recorded) + 1)

\* What does hold: a run that returns has printed the summary, and a run
\* ended by an error has a non-zero status and has entered no later event.
C22_SummaryOnlyOnReturn ==
    /\ pc = "Done" => hist.summary
    /\ pc = "Aborted" =>
           /\ ~hist.summary
           /\ hist.returned # 0
           /\ hist.processed = Range(Len(hist.recorded) + 1)

\* ------------------------------------------------------------------ C23
\* The stages after st in the pipeline.
Downstream(st) == AccStages \ UpTo(st)

\* The state a failing stage call of the current event leaves: the call is
\* not logged as run, no stage downstream of it has run on either path, the
\* comparator has not run and the event is not recorded.
AbortedInEvent ==
    LET st == StageOfCall(hist.thrown)
    IN /\ pc = "Aborted"
       /\ (hist.ev.issued \cup hist.ev.cpu_ran) \cap Downstream(st) = {}
       /\ hist.thrown \in AccCalls => st \notin hist.ev.issued
       /\ hist.thrown \in CpuCalls => st \notin hist.ev.cpu_ran
       /\ ~hist.ev.compared
       /\ hist.processed = Append(hist.recorded, event)

\* C23: the step in which a stage call fails ends the run in the event of
\* the call, with nothing downstream of the call executed and the event
\* neither compared nor recorded, and no step follows it: no later stage,
\* no later event.
C23_StageFailureAbortsAtOnce ==
    [][/\ (hist.thrown = "none" /\ hist'.thrown # "none") => AbortedInEvent'
       /\ hist.thrown = "none"]_vars

C23_Witness ==
    /\ pc = "Aborted"
    /\ hist.thrown = "FindCuda"
    /\ hist.recorded = <<0>>
    /\ event = 1
    /\ input_opts.events = 2
    /\ hist.ev.issued = {"Seed", "Estimate"}

\* ------------------------------------------------------------------ C31
\* The match count after the first k CPU candidates were examined.
MatchesAfter(k) ==
    n_matches(SubSeq(host.track_candidates, 1, k), host.track_candidates_cuda)

\* C31 as claimed: after every iteration of the matching loop the count is
\* between 0 and the number of CPU candidates examined, and the rate the
\* comparator prints and writes is a number in [0, 1] with a non-zero
\* denominator.
C31_RateInUnitInterval ==
    hist.ev.compared =>
        /\ \A k \in 0 .. Len(host.track_candidates) :
               /\ 0 <= MatchesAfter(k)
               /\ MatchesAfter(k) <= k
        /\ hist.ev.rate.den # 0
        /\ ~hist.ev.rate.nan
        /\ 0 <= hist.ev.rate.num
        /\ hist.ev.rate.num <= hist.ev.rate.den

\* What does hold: the bounds on the count, and the rate in [0, 1] when the
\* CPU container is not empty; with an empty one the denominator is 0.
C31_RateInUnitIntervalIfAnyCpuCandidate ==
    hist.ev.compared =>
        /\ \A k \in 0 .. Len(host.track_candidates) :
               /\ 0 <= MatchesAfter(k)
               /\ MatchesAfter(k) <= k
        /\ hist.ev.rate.den = Len(host.track_candidates)
        /\ hist.ev.rate.nan <=> host.track_candidates = << >>
        /\ 0 <= hist.ev.rate.num
        /\ hist.ev.rate.num <= hist.ev.rate.den

\* ------------------------------------------------------------------ C32
\* A driver has returned; an error occurred in the run: a file could not
\* be opened or a stage call threw.
Returned == pc \in {"Done", "tf_Done"}
ErrorOccurred ==
    hist.io.failed # {} \/ hist.io.cerr # {} \/ hist.thrown # "none"

\* C32 as claimed: either driver, having completed every event with every
\* file opened, returns 0, and a driver returns a non-zero status only
\* after an error.
C32_ExitStatusZeroUnlessError ==
    Returned =>
        /\ hist.recorded = Range(input_opts.events)
        /\ ~ErrorOccurred => hist.returned = 0
        /\ hist.returned # 0 => ErrorOccurred

\* What does hold: seq_run returns 0 unless a timing file could not be
\* opened; the truth-fitting main returns 1 after every run.
C32_ExitStatusOfEachDriver ==
    /\ pc = "Done" =>
           /\ hist.recorded = Range(input_opts.events)
           /\ ~ErrorOccurred => hist.returned = 0
           /\ hist.returned # 0 => ErrorOccurred
    /\ pc = "tf_Done" =>
           /\ hist.recorded = Range(input_opts.events)
           /\ ~ErrorOccurred
           /\ hist.returned = 1

\* ------------------------------------------------------------------ C33
\* The maximal digit runs of the lines of a file: <<l, b, e>> where
\* positions b .. e of line l are digits and neither neighbour is one.
DigitRuns(lines) ==
    {r \in (1 .. Len(lines)) \X (1 .. MaxChars) \X (1 .. MaxChars) :
        LET line == lines[r[1]]
        IN /\ r[2] <= r[3] /\ r[3] <= Len(line)
           /\ \A i \in r[2] .. r[3] : IsDigit(line[i])
           /\ r[2] = 1 \/ ~IsDigit(line[r[2] - 1])
           /\ r[3] = Len(line) \/ ~IsDigit(line[r[3] + 1])}

\* r comes before q: on an earlier line, or further left on the same one.
Before(r, q) == r[1] < q[1] \/ (r[1] = q[1] /\ r[2] < q[2])

\* processing is exactly the digit runs of tempo, in order, one per line.
IsDigitRunsOf(processing, tempo) ==
    LET runs == DigitRuns(tempo)
    IN /\ Len(processing) = Cardinality(runs)
       /\ \A r \in runs :
            processing[1 + Cardinality({q \in runs : Before(q, r)})]
                = SubSeq(tempo[r[1]], r[2], r[3])

FileOr(fs, filename) == IF filename \in DOMAIN fs THEN fs[filename] ELSE << >>

EveryFileOpened ==
    \A k \in 1 .. Len(hist) : hist[k].appended /\ hist[k].returned = 0

\* The elapsed-times texts of runs k .. Len(hist), one line per run.
TextsFrom(k) == [i \in 1 .. Len(hist) - k + 1 |-> hist[k + i - 1].elapsedTimes]

\* C34 as claimed: after any sequence of runs, processing_time.txt holds
\* the timing numbers of the most recent run only.
C34_OnlyTheMostRecentRun ==
    (pc = "tm_Done" /\ EveryFileOpened) =>
        IsDigitRunsOf(written["processing_time.txt"], TextsFrom(Len(hist)))

\* What does hold: processing_time.txt holds the timing numbers of every
\* run so far, oldest first.
C34_EveryRunSoFar ==
    (pc = "tm_Done" /\ EveryFileOpened) =>
        /\ written["tempo_time.txt"] = TextsFrom(1)
        /\ IsDigitRunsOf(written["processing_time.txt"], TextsFrom(1))

\* ------------------------------------------------------------------ C35
\* C35: after setup_pu(nvtx, ntrk_per_vtx) the simulator holds exactly nvtx
\* pile-up generators, each configured for ntrk_per_vtx tracks, with
\* pairwise distinct seeds, whatever an earlier call had installed.
C35_SetupPuReplaces ==
    \A r \in Runs :
        hist[r].setup_pu.calls > 0 =>
            LET gens == hist[r].m_pu_track_generators
                args == hist[r].setup_pu
            IN /\ Len(gens) = args.nvtx
               /\ \A i \in 1 .. Len(gens) :
                    gens[i].n_tracks = args.ntrk_per_vtx
               /\ \A i, j \in 1 .. Len(gens) :
                    i # j => gens[i].seed # gens[j].seed

C35_Witness ==
    /\ pc = "sim_run"
    /\ hist[1].setup_pu = [calls |-> 2, before |-> 1, nvtx |-> 2,
                          ntrk_per_vtx |-> 2]
    /\ Len(hist[1].m_pu_track_generators) = 2
    /\ hist[1].m_pu_track_generators[1].n_tracks = 2
    /\ hist[1].m_pu_track_generators[1].seed
           # hist[1].m_pu_track_generators[2].seed

\* ------------------------------------------------------------------ C36
\* The number of tracks of the generators gens[i], gens[i+1], ...
RECURSIVE SumTracks(_, _)
SumTracks(gens, i) ==
    IF i > Len(gens) THEN 0 ELSE gens[i].n_tracks + SumTracks(gens, i + 1)

\* C36: every event writes and propagates the tracks of the primary
\* generator first, then those of every pile-up generator in installation
\* order, each track exactly once; the particle id grows by one per track,
\* so the ids of an event are consecutive and unique, and the event's
\* particle total is the primary tracks plus the sum of the pile-up tracks.
C36_PrimaryThenPileUpWithConsecutiveIds ==
    \A r \in Runs : \A e \in 1 .. Len(hist[r].particles) :
        LET ws == hist[r].particles[e]
            gens == hist[r].m_pu_track_generators
            total == track_gen.n_tracks + SumTracks(gens, 1)
        IN /\ ws.tracks = Tracks(track_gen) \o PileUp(gens, 1)
           /\ ws.propagated = ws.tracks
           /\ Len(ws.ids) = Len(ws.tracks)
           /\ \A k \in 1 .. Len(ws.ids) - 1 : ws.ids[k + 1] = ws.ids[k] + 1
           /\ \A i, j \in 1 .. Len(ws.ids) : i # j => ws.ids[i] # ws.ids[j]
           /\ Len(ws.ids) = total
           /\ ws.particle_id = ws.ids[1] + total

C36_Witness ==
    /\ pc = "sim_Done"
    /\ Len(hist[1].particles) = 2
    /\ Len(hist[1].m_pu_track_generators) = 2
    /\ hist[1].particles[2].ids = <<0, 1, 2, 3, 4>>
    /\ hist[1].particles[2].tracks[1].cfg = track_gen
    /\ hist[1].particles[2].tracks[2].cfg = hist[1].m_pu_track_generators[1]
    /\ hist[1].particles[2].tracks[4].cfg = hist[1].m_pu_track_generators[2]

\* ------------------------------------------------------------------ C37
\* C37 as claimed: the writer state of every event is constructed from the
\* configuration supplied to the constructor, and constructing it leaves
\* the stored configuration unchanged.
C37_EveryWriterStateFromTheSuppliedConfig ==
    \A r \in Runs :
        /\ hist[r].m_writer_cfg = writer_cfg
        /\ \A e \in 1 .. Len(hist[r].particles) :
             hist[r].particles[e].cfg = writer_cfg

\* What does hold: the writer state of event 0 is constructed from the
\* supplied configuration, and so is every later one when the constructor
\* of the writer state does not move from its argument.
C37_FirstWriterStateFromTheSuppliedConfig ==
    \A r \in Runs :
        /\ Len(hist[r].particles) > 0 => hist[r].particles[1].cfg = writer_cfg
        /\ ~input_opts.writer_moves =>
             /\ hist[r].m_writer_cfg = writer_cfg
             /\ \A e \in 1 .. Len(hist[r].particles) :
                  hist[r].particles[e].cfg = writer_cfg

====
